---------------------------- MODULE Spec2Model ----------------------------
(***************************************************************************)
(* The VTK loader of the pregnancy-app front end: the text parser of       *)
(* parseVTKData, the geometry it hands on, and the life cycle of the       *)
(* meshes a loader instance puts in the scene.                             *)
(*                                                                         *)
(* Two versions of the loader are in the repository and both are modelled: *)
(*   "lod" : frontend/utils/vtkLoader.js (LOD batches of tube meshes)      *)
(*   "cyl" : unnamed/part_000 (one combined pressure-coloured cylinder     *)
(*           mesh)                                                         *)
(*                                                                         *)
(* Numbers.  A parsed floating point value is held in tenths (3 is 30,     *)
(* 0.5 is 5), so that the default radius 0.1 is the integer 1.  Integers   *)
(* read with parseInt (counts, point indices) are held as they are.        *)
(* NaN and undefined are two values outside the range of every number      *)
(* the model computes.                                                     *)
(***************************************************************************)
EXTENDS Integers, Sequences, FiniteSets, TLC

---------------------------------------------------------------------------
(* Bounds of the model *)

\* the largest numeral a generated file holds
MaxNum == 3
\* the largest number of points a generated points section holds
MaxPoints == 2
\* the largest number of values on one line of a generated numeric section
MaxChunk == 4
\* the number of loadVTKFile calls one behaviour of the loader makes
MaxLoads == 2
\* the number of tube-mode calls of loadVTKFile that overlap
MaxTasks == 2

---------------------------------------------------------------------------
(* JavaScript values *)

NaN == -9999
Undefined == -9998

IsNumber(v) == v # NaN /\ v # Undefined

\* a < b of JavaScript on numbers: false as soon as one side is NaN
Lt(a, b) == IsNumber(a) /\ IsNumber(b) /\ a < b

\* a * b of JavaScript on numbers: NaN as soon as one side is NaN
Times(a, b) == IF IsNumber(a) /\ IsNumber(b) THEN a * b ELSE NaN

\* arr[i] of JavaScript (i from 0): undefined outside the array
At(arr, i) == IF i \in 0..(Len(arr) - 1) THEN arr[i + 1] ELSE Undefined

\* v || d of JavaScript on a number: undefined, NaN and 0 are falsy
OrDefault(v, d) == IF v = Undefined \/ v = NaN \/ v = 0 THEN d ELSE v

\* the default radius 0.1, in tenths
DefaultRadius == 1

---------------------------------------------------------------------------
(* Tokens.  A line is the sequence of its blank-separated tokens (the     *)
(* trimmed line, cut at single blanks); a file is a sequence of lines.    *)

Numerals == -1..MaxNum

\* parseInt on a token: the integer of a numeral, the integer part of a
\* decimal, NaN for a word
parseInt(tok) ==
    IF \E n \in Numerals : ToString(n) = tok
    THEN CHOOSE n \in Numerals : ToString(n) = tok
    ELSE IF tok = "0.5" THEN 0
    ELSE NaN

\* parseFloat on a token, in tenths
parseFloat(tok) ==
    IF \E n \in Numerals : ToString(n) = tok
    THEN 10 * (CHOOSE n \in Numerals : ToString(n) = tok)
    ELSE IF tok = "0.5" THEN 5
    ELSE NaN

\* String.prototype.toLowerCase on the scalar names the files use
toLowerCase(tok) ==
    CASE tok = "Radius" -> "radius"
      [] tok = "RADIUS" -> "radius"
      [] tok = "Pressure" -> "pressure"
      [] OTHER -> tok

\* line.startsWith(keyword), on the first token of the trimmed line
startsWith(line, kw) == Len(line) > 0 /\ line[1] = kw

\* line.split(' ').filter(x => x !== '').map(parseFloat)
FloatsOf(line) == [i \in 1..Len(line) |-> parseFloat(line[i])]

\* parts.map(x => parseInt(x)).filter(x => !isNaN(x))
IntsOf(line) ==
    SelectSeq([i \in 1..Len(line) |-> parseInt(line[i])], LAMBDA v : v # NaN)

\* parseInt(parts[1]) of a header line
CountOf(line) == IF Len(line) >= 2 THEN parseInt(line[2]) ELSE NaN

IsCellsHeader(line) ==
    startsWith(line, "CELLS") \/ startsWith(line, "POLYGONS") \/ startsWith(line, "LINES")

---------------------------------------------------------------------------
(* The parser state: the local variables of parseVTKData *)

InitParser ==
    [ isReadingPoints   |-> FALSE,
      isReadingCells    |-> FALSE,
      isReadingScalars  |-> FALSE,
      isReadingRadius   |-> FALSE,
      isReadingPressure |-> FALSE,
      pointCount        |-> 0,
      scalarName        |-> "",
      points            |-> << >>,
      radii             |-> << >>,
      radiusData        |-> << >>,
      pressureData      |-> << >>,
      vertices          |-> << >>,
      segments          |-> << >>,
      cellConnections   |-> << >> ]

\* the coordinates of point idx, as the code reads them from the flat array
PointAt(points, idx) ==
    << At(points, idx * 3), At(points, idx * 3 + 1), At(points, idx * 3 + 2) >>

\* the indices taken two by two, as separate lines rather than a polyline
PairsOfDisjoint(indices) ==
    [j \in 1..(indices[1] \div 2) |-> << indices[2 * j], indices[2 * j + 1] >>]

\* the consecutive index pairs (indices[j], indices[j+1]), j = 1..cellSize-1
PairsOf(indices) ==
    [j \in 1..(indices[1] - 1) |-> << indices[j + 1], indices[j + 2] >>]

\* idx2 !== undefined && !isNaN(idx1) && !isNaN(idx2)
\*   && idx1 * 3 + 2 < points.length && idx2 * 3 + 2 < points.length
PairInBounds(points, pr) ==
    /\ pr[2] # Undefined
    /\ IsNumber(pr[1]) /\ IsNumber(pr[2])
    /\ pr[1] * 3 + 2 < Len(points) /\ pr[2] * 3 + 2 < Len(points)

\* a record is processed when its declared count matches its length
RecordAccepted(indices) == Len(indices) > 1 /\ Len(indices) = indices[1] + 1

\* the lines of the cells section the parser takes for records
IsRecordLine(line) ==
    /\ Len(line) > 0
    /\ ~startsWith(line, "CELL_TYPES")
    /\ ~startsWith(line, "POINT_DATA")
    /\ ~startsWith(line, "SCALARS")
    /\ ~startsWith(line, "LOOKUP_TABLE")

\* the segment object the tube path stores; idx1 and idx2 record the point
\* indices it was read from
SegmentOf(s, pr) ==
    [ start       |-> PointAt(s.points, pr[1]),
      end         |-> PointAt(s.points, pr[2]),
      startRadius |-> OrDefault(At(s.radii, pr[1]), DefaultRadius),
      endRadius   |-> OrDefault(At(s.radii, pr[2]), DefaultRadius),
      idx1        |-> pr[1],
      idx2        |-> pr[2] ]

\* the six coordinates the line path pushes for one index pair
LineVerticesOf(s, pr) == PointAt(s.points, pr[1]) \o PointAt(s.points, pr[2])

RECURSIVE Flatten(_)
Flatten(seqs) == IF seqs = << >> THEN << >> ELSE Head(seqs) \o Flatten(Tail(seqs))


---------------------------------------------------------------------------
(* parseVTKData of vtkLoader.js ("lod"): one turn of the loop over the lines *)

\* the block that reads point coordinates
ReadPoints(s, line) ==
    IF s.isReadingPoints /\ Lt(Len(s.points), Times(s.pointCount, 3))
    THEN [s EXCEPT !.points = @ \o FloatsOf(line)]
    ELSE s

\* the block that reads scalar values into radii
ReadScalars(s, line) ==
    IF s.isReadingScalars /\ Lt(Len(s.radii), s.pointCount) /\ Len(line) > 0
    THEN [s EXCEPT !.radii = @ \o FloatsOf(line)]
    ELSE s

\* the block that reads one record of the cells section
ReadCells(s, line, enableTubeMesh) ==
    IF s.isReadingCells /\ IsRecordLine(line) /\ RecordAccepted(IntsOf(line))
    THEN LET pairs == SelectSeq(PairsOf(IntsOf(line)),
                                LAMBDA pr : PairInBounds(s.points, pr))
         IN  IF enableTubeMesh
             THEN [s EXCEPT !.segments =
                      @ \o [k \in 1..Len(pairs) |-> SegmentOf(s, pairs[k])]]
             ELSE [s EXCEPT !.vertices =
                      @ \o Flatten([k \in 1..Len(pairs) |-> LineVerticesOf(s, pairs[k])])]
    ELSE s

\* the closing test of the loop body
StopCells(s, line) ==
    IF startsWith(line, "CELL_TYPES") \/ startsWith(line, "POINT_DATA")
    THEN [s EXCEPT !.isReadingCells = FALSE]
    ELSE s

ParseLineLod(s, line, enableTubeMesh) ==
    IF startsWith(line, "POINTS")
    THEN [s EXCEPT !.pointCount = CountOf(line),
                   !.isReadingPoints = TRUE,
                   !.isReadingCells = FALSE]
    ELSE IF IsCellsHeader(line)
    THEN [s EXCEPT !.isReadingPoints = FALSE,
                   !.isReadingCells = TRUE,
                   !.isReadingScalars = FALSE]
    ELSE IF startsWith(line, "POINT_DATA")
    THEN [s EXCEPT !.isReadingPoints = FALSE,
                   !.isReadingCells = FALSE,
                   !.isReadingScalars = FALSE]
    ELSE IF startsWith(line, "SCALARS")
    THEN [s EXCEPT !.scalarName = IF Len(line) > 1 THEN line[2] ELSE @,
                   !.isReadingPoints = FALSE,
                   !.isReadingCells = FALSE,
                   !.isReadingScalars = FALSE]
    ELSE IF startsWith(line, "LOOKUP_TABLE")
    THEN [s EXCEPT !.isReadingScalars = IF s.scalarName # "" THEN TRUE ELSE @,
                   !.isReadingPoints = FALSE,
                   !.isReadingCells = FALSE]
    ELSE StopCells(ReadCells(ReadScalars(ReadPoints(s, line), line), line, enableTubeMesh), line)

---------------------------------------------------------------------------
(* parseVTKData of part_000 ("cyl"): one turn of the loop over the lines *)

ReadRadius(s, line) ==
    IF s.isReadingRadius /\ Lt(Len(s.radiusData), s.pointCount)
    THEN [s EXCEPT !.radiusData = @ \o FloatsOf(line)]
    ELSE s

ReadPressure(s, line) ==
    IF s.isReadingPressure /\ Lt(Len(s.pressureData), s.pointCount)
    THEN [s EXCEPT !.pressureData = @ \o FloatsOf(line)]
    ELSE s

\* a matching record is kept in cellConnections; without cylinder geometry
\* its line segments are pushed at once
ReadCellsCyl(s, line, useCylinderGeometry) ==
    IF s.isReadingCells /\ IsRecordLine(line) /\ RecordAccepted(IntsOf(line))
    THEN LET pairs == SelectSeq(PairsOf(IntsOf(line)),
                                LAMBDA pr : PairInBounds(s.points, pr))
         IN  [s EXCEPT !.cellConnections = Append(@, IntsOf(line)),
                       !.vertices =
                           IF useCylinderGeometry THEN @
                           ELSE @ \o Flatten([k \in 1..Len(pairs) |->
                                                LineVerticesOf(s, pairs[k])])]
    ELSE s

ParseLineCyl(s, line, useCylinderGeometry) ==
    IF startsWith(line, "POINTS")
    THEN [s EXCEPT !.pointCount = CountOf(line),
                   !.isReadingPoints = TRUE,
                   !.isReadingCells = FALSE,
                   !.isReadingScalars = FALSE,
                   !.isReadingRadius = FALSE,
                   !.isReadingPressure = FALSE]
    ELSE IF IsCellsHeader(line)
    THEN [s EXCEPT !.isReadingPoints = FALSE,
                   !.isReadingCells = TRUE,
                   !.isReadingScalars = FALSE,
                   !.isReadingRadius = FALSE,
                   !.isReadingPressure = FALSE]
    ELSE IF startsWith(line, "POINT_DATA")
    THEN [s EXCEPT !.isReadingPoints = FALSE,
                   !.isReadingCells = FALSE,
                   !.isReadingScalars = TRUE,
                   !.isReadingRadius = FALSE,
                   !.isReadingPressure = FALSE]
    ELSE IF startsWith(line, "SCALARS")
    THEN [s EXCEPT !.isReadingRadius =
                       IF Len(line) > 1 THEN toLowerCase(line[2]) = "radius" ELSE @,
                   !.isReadingPressure =
                       IF Len(line) > 1 THEN toLowerCase(line[2]) = "pressure" ELSE @,
                   !.isReadingPoints = FALSE,
                   !.isReadingCells = FALSE]
    ELSE IF startsWith(line, "LOOKUP_TABLE")
    THEN s
    ELSE StopCells(ReadCellsCyl(ReadPressure(ReadRadius(ReadPoints(s, line), line), line),
                                line, useCylinderGeometry), line)

\* one turn of the loop, in either version
ParseLine(version, s, line, tubeMode) ==
    IF version = "lod" THEN ParseLineLod(s, line, tubeMode)
    ELSE ParseLineCyl(s, line, tubeMode)

\* the whole loop over the lines, from line i on
RECURSIVE ParseFrom(_, _, _, _, _)
ParseFrom(version, s, lines, i, tubeMode) ==
    IF i > Len(lines) THEN s
    ELSE ParseFrom(version, ParseLine(version, s, lines[i], tubeMode), lines, i + 1, tubeMode)

---------------------------------------------------------------------------
(* The end of parseVTKData: the geometry it returns *)

\* modelSize = options.modelSize || 420
DefaultModelSize == 420

SetMin(S) == CHOOSE x \in S : \A y \in S : x <= y
SetMax(S) == CHOOSE x \in S : \A y \in S : y <= x

\* the numbers of axis a (1, 2, 3) in a flat position array
AxisValues(pos, a) ==
    { pos[i] : i \in { k \in 1..Len(pos) : (k - 1) % 3 = a - 1 /\ IsNumber(pos[k]) } }

\* computeBoundingBox, getCenter and getSize on a position array: the box is
\* built by comparisons, which a NaN never wins.  c2 is twice the centre and
\* maxDim the largest dimension, both in tenths; an empty box has centre and
\* size 0
BoundingBox(pos) ==
    IF \E a \in 1..3 : AxisValues(pos, a) = {}
    THEN [ c2 |-> << 0, 0, 0 >>, maxDim |-> 0 ]
    ELSE [ c2     |-> [a \in 1..3 |-> SetMin(AxisValues(pos, a)) + SetMax(AxisValues(pos, a))],
           maxDim |-> SetMax({ SetMax(AxisValues(pos, a)) - SetMin(AxisValues(pos, a)) :
                               a \in 1..3 }) ]

NoBox == [ c2 |-> << 0, 0, 0 >>, maxDim |-> -1 ]

\* what parseVTKData returns.  position is the position attribute before
\* the centre-and-scale transform, box the transform applied to it (NoBox:
\* none, the geometry is left as parsed); geometry "null" is the null the
\* tube path returns in place of a geometry
Returned(kind, isPointCloud, position, box, segments, hasRadii, cylinders) ==
    [ kind         |-> kind,
      isPointCloud |-> isPointCloud,
      position     |-> position,
      box          |-> box,
      segments     |-> segments,
      hasRadii     |-> hasRadii,
      cylinders    |-> cylinders ]

\* allPoints of the tube path: start and end of every segment
AllPoints(segments) ==
    Flatten([k \in 1..Len(segments) |-> segments[k].start \o segments[k].end])

\* the point-cloud fallback and the line geometry, shared by both versions
FallbackOrLines(s) ==
    IF Len(s.vertices) = 0 /\ Len(s.points) > 0
    THEN Returned("points", TRUE, s.points, NoBox, << >>, FALSE, << >>)
    ELSE Returned("lines", FALSE, s.vertices, BoundingBox(s.vertices), << >>, FALSE, << >>)

\* vtkLoader.js: after the loop
FinishLod(s, enableTubeMesh) ==
    IF enableTubeMesh /\ Len(s.segments) > 0
    THEN Returned("tube", FALSE, << >>, BoundingBox(AllPoints(s.segments)),
                  s.segments, Len(s.radii) > 0, << >>)
    ELSE FallbackOrLines(s)

\* idx2 !== undefined && idx1 < points.length / 3 && idx2 < points.length / 3
CylinderPairOk(points, pr) ==
    /\ pr[2] # Undefined
    /\ Lt(Times(pr[1], 3), Len(points))
    /\ Lt(Times(pr[2], 3), Len(points))

\* one tapered cylinder of createCylinderGeometry and the values it is built from
CylinderOf(s, pr) ==
    [ p1        |-> PointAt(s.points, pr[1]),
      p2        |-> PointAt(s.points, pr[2]),
      radius1   |-> OrDefault(At(s.radiusData, pr[1]), DefaultRadius),
      radius2   |-> OrDefault(At(s.radiusData, pr[2]), DefaultRadius),
      pressure1 |-> OrDefault(At(s.pressureData, pr[1]), 0),
      pressure2 |-> OrDefault(At(s.pressureData, pr[2]), 0),
      idx1      |-> pr[1],
      idx2      |-> pr[2] ]

\* createCylinderGeometry: a cylinder for every index pair of every stored
\* record that passes its bounds test
CylindersOf(s) ==
    Flatten([c \in 1..Len(s.cellConnections) |->
        LET pairs == SelectSeq(PairsOf(s.cellConnections[c]),
                               LAMBDA pr : CylinderPairOk(s.points, pr))
        IN  [k \in 1..Len(pairs) |-> CylinderOf(s, pairs[k])]])

\* the combined cylinder geometry is centred and scaled on the box of its
\* ring vertices, which the model does not place
RingBox == [ c2 |-> << 0, 0, 0 >>, maxDim |-> -2 ]

\* part_000: after the loop
FinishCyl(s, useCylinderGeometry) ==
    IF useCylinderGeometry /\ Len(s.radiusData) > 0 /\ Len(s.cellConnections) > 0
    THEN Returned("cylinder", FALSE, << >>, RingBox, << >>, TRUE, CylindersOf(s))
    ELSE FallbackOrLines(s)

Finish(version, s, tubeMode) ==
    IF version = "lod" THEN FinishLod(s, tubeMode) ELSE FinishCyl(s, tubeMode)

---------------------------------------------------------------------------
(* The performance controller and the LOD batches of vtkLoader.js *)

RECURSIVE GCD(_, _)
GCD(a, b) == IF b = 0 THEN a ELSE GCD(b, a % b)

\* a non-negative rational n/d in lowest terms
Rat(n, d) == << n \div GCD(n, d), d \div GCD(n, d) >>
RatLt(x, y) == x[1] * y[2] < y[1] * x[2]
RatMin(x, y) == IF RatLt(x, y) THEN x ELSE y

\* The frame rate and the radius scales are products of many factors: they
\* are held to six decimal places, rounded down (the code holds them as
\* doubles).  Micro is the value of x in millionths, for x a multiple of
\* one millionth
Million == 1000000
Micro(x) == x[1] * (Million \div x[2])
FromMicro(n) == Rat(n, Million)

\* the distance Infinity of the last level
Infinity == 1000000

Level(distance, segments, rsNum, rsDen) ==
    [ distance |-> distance, segments |-> segments, radiusScale |-> Rat(rsNum, rsDen) ]

\* this.lodLevels of the constructor
InitialLodLevels ==
    << Level(50, 8, 10, 10), Level(150, 6, 8, 10),
       Level(400, 4, 6, 10), Level(Infinity, 3, 4, 10) >>

InitialMaxSegmentsPerBatch == 1000

\* this.performanceMonitor of the constructor (lastFrameTime is left out: the
\* time between two readings is an input of updatePerformanceMonitor)
InitialMonitor == [ frameRate |-> Rat(60, 1), lowFrameCount |-> 0 ]

Max(a, b) == IF a > b THEN a ELSE b
Min(a, b) == IF a < b THEN a ELSE b

\* updatePerformanceMonitor, deltaTime milliseconds after the last reading
UpdatePerformanceMonitor(m, deltaTime) ==
    IF deltaTime > 0
    THEN [ frameRate |->
               FromMicro((9 * Micro(m.frameRate) + Micro(Rat(1000, deltaTime))) \div 10),
           lowFrameCount |->
               IF RatLt(Rat(1000, deltaTime), Rat(30, 1)) THEN m.lowFrameCount + 1
               ELSE IF m.lowFrameCount > 0 THEN m.lowFrameCount - 1
               ELSE m.lowFrameCount ]
    ELSE m

ShouldDegrade(m) == RatLt(m.frameRate, Rat(20, 1)) \/ m.lowFrameCount > 10
ShouldImprove(m) == RatLt(Rat(45, 1), m.frameRate) /\ m.lowFrameCount = 0

\* the degrade step applied to the levels nearer than 400 only
DegradeLevelNearOnly(level) ==
    IF level.distance < 400
    THEN [ level EXCEPT !.segments = Max(3, (@ * 7) \div 10),
                        !.radiusScale = FromMicro((Micro(@) * 8) \div 10) ]
    ELSE level

DegradeLevel(level) ==
    [ level EXCEPT !.segments = Max(3, (@ * 7) \div 10),
                   !.radiusScale = FromMicro((Micro(@) * 8) \div 10) ]

ImproveLevel(level) ==
    [ level EXCEPT !.segments = Min(8, (@ * 11) \div 10),
                   !.radiusScale = RatMin(Rat(1, 1), FromMicro((Micro(@) * 105) \div 100)) ]

\* the mode is not looked at: every tick adjusts
AdjustInEveryMode(mode, m, levels, batchSize) ==
    IF ShouldDegrade(m)
    THEN [ lodLevels |-> [k \in 1..Len(levels) |-> DegradeLevel(levels[k])],
           maxSegmentsPerBatch |-> Max(500, (batchSize * 8) \div 10) ]
    ELSE IF ShouldImprove(m)
    THEN [ lodLevels |-> [k \in 1..Len(levels) |-> ImproveLevel(levels[k])],
           maxSegmentsPerBatch |-> Min(2000, (batchSize * 11) \div 10) ]
    ELSE [ lodLevels |-> levels, maxSegmentsPerBatch |-> batchSize ]

\* adjustPerformanceMode: the LOD levels and the batch size after the tick
AdjustPerformanceMode(mode, m, levels, batchSize) ==
    IF mode # "auto" THEN [ lodLevels |-> levels, maxSegmentsPerBatch |-> batchSize ]
    ELSE IF ShouldDegrade(m)
    THEN [ lodLevels |-> [k \in 1..Len(levels) |-> DegradeLevel(levels[k])],
           maxSegmentsPerBatch |-> Max(500, (batchSize * 8) \div 10) ]
    ELSE IF ShouldImprove(m)
    THEN [ lodLevels |-> [k \in 1..Len(levels) |-> ImproveLevel(levels[k])],
           maxSegmentsPerBatch |-> Min(2000, (batchSize * 11) \div 10) ]
    ELSE [ lodLevels |-> levels, maxSegmentsPerBatch |-> batchSize ]

\* the settings table of setPerformanceMode
Preset(mode) ==
    CASE mode = "high" ->
           [ lodLevels |-> << Level(50, 8, 10, 10), Level(150, 6, 9, 10),
                              Level(400, 4, 7, 10), Level(Infinity, 3, 5, 10) >>,
             maxSegmentsPerBatch |-> 1500 ]
      [] mode = "medium" ->
           [ lodLevels |-> << Level(50, 6, 9, 10), Level(150, 4, 7, 10),
                              Level(400, 3, 5, 10), Level(Infinity, 3, 3, 10) >>,
             maxSegmentsPerBatch |-> 1000 ]
      [] mode = "low" ->
           [ lodLevels |-> << Level(50, 4, 7, 10), Level(150, 3, 5, 10),
                              Level(400, 3, 3, 10), Level(Infinity, 3, 2, 10) >>,
             maxSegmentsPerBatch |-> 500 ]

\* only the full batches: a shorter last batch is left out
CreateFullBatches(segments, batchSize) ==
    [b \in 1..(Len(segments) \div batchSize) |->
        SubSeq(segments, (b - 1) * batchSize + 1, b * batchSize)]

\* createSegmentBatches: consecutive slices of batchSize segments
CreateSegmentBatches(segments, batchSize) ==
    [b \in 1..((Len(segments) + batchSize - 1) \div batchSize) |->
        SubSeq(segments, (b - 1) * batchSize + 1, Min(b * batchSize, Len(segments)))]

\* the squared length of a segment as parsed, in square tenths; NaN when a
\* coordinate is no number
LengthSquared(seg) ==
    IF \E a \in 1..3 : ~IsNumber(seg.start[a]) \/ ~IsNumber(seg.end[a])
    THEN NaN
    ELSE (seg.end[1] - seg.start[1]) * (seg.end[1] - seg.start[1])
       + (seg.end[2] - seg.start[2]) * (seg.end[2] - seg.start[2])
       + (seg.end[3] - seg.start[3]) * (seg.end[3] - seg.start[3])

\* length < 0.001 on the scaled segment.  The scale is modelSize / maxDim, so
\* the scaled length is below 0.001 when len2 * (1000 * modelSize)^2 is below
\* maxDim^2 (tenths on both sides); with maxDim = 0 the scale is Infinity,
\* the scaled coordinates are NaN and the test is false
IsShort(seg, box, modelSize) ==
    /\ box.maxDim > 0
    /\ IsNumber(LengthSquared(seg))
    /\ LengthSquared(seg)
          <= (((box.maxDim * box.maxDim - 1) \div (1000 * modelSize)) \div (1000 * modelSize))

\* radius * tubeRadiusScale * level.radiusScale < 0.001 on the scaled radius
\* r * modelSize / maxDim (r in tenths, tubeRadiusScale at its default 1.0);
\* with maxDim = 0 the scaled radius is +Infinity or -Infinity
IsThin(r, box, modelSize, radiusScale) ==
    IF box.maxDim > 0
    THEN r * modelSize * radiusScale[1] <= ((box.maxDim * radiusScale[2] - 1) \div 1000)
    ELSE r < 0

\* the two tests of createMergedTubeGeometry, which createVariableRadiusTube
\* repeats: the segment gets no geometry
IsSkipped(seg, box, modelSize, radiusScale) ==
    \/ IsShort(seg, box, modelSize)
    \/ /\ IsThin(seg.startRadius, box, modelSize, radiusScale)
       /\ IsThin(seg.endRadius, box, modelSize, radiusScale)

\* createMergedTubeGeometry at one level: the segments of the batch that get
\* a tube, each of Math.max(3, level.segments) radial segments and of the
\* segment's radii times config.tubeRadiusScale * level.radiusScale
\* (config.tubeRadiusScale at its default 1.0)
MergedTubeGeometry(batch, box, modelSize, level) ==
    [ tubes           |-> SelectSeq(batch, LAMBDA seg :
                              ~IsSkipped(seg, box, modelSize, level.radiusScale)),
      radialSegments  |-> Max(3, level.segments),
      tubeRadiusScale |-> level.radiusScale,
      distance        |-> level.distance ]

\* createLODGroup: one merged mesh per level
LODGroup(batch, box, modelSize, levels) ==
    [k \in 1..Len(levels) |-> MergedTubeGeometry(batch, box, modelSize, levels[k])]

\* the loop of createOptimizedTubeMesh over the batches
TubeGroups(segments, box, modelSize, levels, batchSize) ==
    [b \in 1..Len(CreateSegmentBatches(segments, batchSize)) |->
        LODGroup(CreateSegmentBatches(segments, batchSize)[b], box, modelSize, levels)]

---------------------------------------------------------------------------
(* The files the parser is run on.  A file is a preamble line followed by *)
(* up to three sections (points, connectivity, point data) in some order. *)

\* the largest declared size of a generated cell record
MaxCell == 3


\* vals cut into lines of c tokens (the last one may be shorter)
Chunks(vals, c) ==
    [i \in 1..((Len(vals) + c - 1) \div c) |->
        SubSeq(vals, (i - 1) * c + 1, Min(i * c, Len(vals)))]

\* the coordinates of the j-th point of a generated file (j from 0)
PointTokens(j) ==
    << ToString((3 * j) % (MaxNum + 1)), ToString(2 * (j % 2)), "0" >>

CoordTokens(n) == Flatten([j \in 1..n |-> PointTokens(j - 1)])

\* POINTS k, followed by the coordinates of n points on lines of c values
PointsSection(k, n, c) ==
    << << "POINTS", ToString(k), "float" >> >> \o Chunks(CoordTokens(n), c)

\* the same with the second value replaced by a word
BadPointsSection(k, n, c) ==
    << << "POINTS", ToString(k), "float" >> >>
        \o Chunks([i \in 1..(3 * n) |-> IF i = 2 THEN "abc" ELSE CoordTokens(n)[i]], c)

PointsSections ==
    { PointsSection(k, n, c) : k \in 0..MaxPoints, n \in 0..MaxPoints, c \in 1..MaxChunk }
        \cup { BadPointsSection(MaxPoints, MaxPoints, 3) }

FullPoints == PointsSection(MaxPoints, MaxPoints, 3)

\* the index lists of generated cell records: up to MaxCell indices, each a
\* point index or the first index past the points
IndexLists ==
    UNION { [1..len -> 0..MaxPoints] : len \in 1..MaxCell }

IndexTokens(idxs) == [i \in 1..Len(idxs) |-> ToString(idxs[i])]

\* a record declaring n indices, followed by the indices idxs
Record(n, idxs) == << ToString(n) >> \o IndexTokens(idxs)

Records ==
    { Record(n, idxs) : n \in 1..MaxCell, idxs \in IndexLists }
        \cup { << "2", "-1", "0" >>, << "2", "0", "abc", "1" >>, << "0" >> }

CellsHeader(kw, n) == << kw, ToString(n), ToString(3 * n) >>

\* a connectivity section of one record, or of one record followed by the
\* record 2 0 1, possibly closed by a CELL_TYPES section
CellsSections ==
    { << CellsHeader("LINES", 1), r >> : r \in Records }
        \cup { << CellsHeader("LINES", 2), r, Record(2, << 0, 1 >>) >> : r \in Records }
        \cup { << CellsHeader(kw, 1), Record(2, << 0, 1 >>) >> : kw \in {"CELLS", "POLYGONS"} }
        \cup { << CellsHeader("CELLS", 1), Record(2, << 0, 1 >>),
                  << "CELL_TYPES", "1" >>, << "3" >> >> }

OneLine == << CellsHeader("LINES", 1), Record(2, << 0, 1 >>) >>

\* the j-th value of a generated scalar block (j from 0): 2, 0.5, 3, 0, ...
ScalarTokens(n) ==
    [j \in 1..n |-> CASE j % 4 = 1 -> "2" [] j % 4 = 2 -> "0.5"
                      [] j % 4 = 3 -> "3" [] OTHER -> "0"]

ScalarNames == {"radius", "Radius", "diameter", "pressure", "flow"}

\* SCALARS name, LOOKUP_TABLE and n values on lines of c values
ScalarBlock(name, n, c) ==
    << << "SCALARS", name, "float" >>, << "LOOKUP_TABLE", "default" >> >>
        \o Chunks(ScalarTokens(n), c)

ScalarBlocks ==
    { ScalarBlock(name, n, c) : name \in ScalarNames, n \in 0..MaxPoints, c \in {1, MaxChunk} }
        \cup { << << "SCALARS", "radius", "float" >>, << "LOOKUP_TABLE", "default" >>,
                  << "abc", "2" >>, << >>, << "3" >> >> }

\* POINT_DATA k followed by one or two scalar blocks
DataSections ==
    { << << "POINT_DATA", ToString(MaxPoints) >> >> \o b : b \in ScalarBlocks }
        \cup { << << "POINT_DATA", ToString(MaxPoints) >> >> \o b
                  \o ScalarBlock(name, MaxPoints, MaxChunk) :
               b \in ScalarBlocks, name \in {"radius", "pressure"} }

FullRadius ==
    << << "POINT_DATA", ToString(MaxPoints) >> >> \o ScalarBlock("radius", MaxPoints, MaxChunk)

Absent == << >>

\* the section triples: every variant of one section with the plain variants
\* of the other two, present or absent
SectionTriples ==
    (PointsSections \X {OneLine, Absent} \X {FullRadius, Absent})
        \cup ({FullPoints, Absent} \X CellsSections \X {FullRadius, Absent})
        \cup ({FullPoints} \X {OneLine, Absent} \X DataSections)

Preamble == << << "DATASET", "POLYDATA" >> >>

\* the file of a triple, its sections in the specified order (points,
\* connectivity, point data) or in one of two other orders
InOrder(t, order) ==
    CASE order = "PCD" -> Preamble \o t[1] \o t[2] \o t[3]
      [] order = "PDC" -> Preamble \o t[1] \o t[3] \o t[2]
      [] order = "DPC" -> Preamble \o t[3] \o t[1] \o t[2]

Orders == {"PCD", "PDC", "DPC"}

Files == { InOrder(t, order) : t \in SectionTriples, order \in Orders }

---------------------------------------------------------------------------
(* The files a load receives, all in the specified layout *)

\* no POINTS section at all, and one with connectivity and a radius field
EmptyFile == InOrder(<< Absent, Absent, Absent >>, "PCD")
NoPointsFile == InOrder(<< Absent, OneLine, FullRadius >>, "PCD")

\* points and no connectivity section
PointsOnlyFile == InOrder(<< FullPoints, Absent, Absent >>, "PCD")

\* points and one polyline, without a radius field, with one after the
\* connectivity (the specified order) and with one before it
NoRadiusFile == InOrder(<< FullPoints, OneLine, Absent >>, "PCD")
StandardFile == InOrder(<< FullPoints, OneLine, FullRadius >>, "PCD")
RadiusFirstFile == InOrder(<< FullPoints, OneLine, FullRadius >>, "DPC")

\* the only record declares three indices and gives two
MismatchedFile ==
    InOrder(<< FullPoints, << CellsHeader("LINES", 1), Record(3, << 0, 1 >>) >>,
               FullRadius >>, "PCD")

\* the only record joins point 0 to itself
ZeroLengthFile ==
    InOrder(<< FullPoints, << CellsHeader("LINES", 1), Record(2, << 0, 0 >>) >>,
               FullRadius >>, "PCD")

\* the only record names the first index past the points
OutOfRangeFile ==
    InOrder(<< FullPoints, << CellsHeader("LINES", 1), Record(2, << 0, MaxPoints >>) >>,
               FullRadius >>, "PCD")

LoadFiles ==
    << EmptyFile, NoPointsFile, PointsOnlyFile, NoRadiusFile, StandardFile,
       RadiusFirstFile, MismatchedFile, ZeroLengthFile, OutOfRangeFile >>

---------------------------------------------------------------------------
(* State *)

VARIABLES
    impl,      \* the version of the loader: "lod" or "cyl"
    file,      \* parseVTKData: the lines of vtkData
    tube,      \* parseVTKData: enableTubeMesh / useCylinderGeometry
    lineNo,    \* parseVTKData: the line the loop is at (from 1)
    ps,        \* parseVTKData: the local variables of the loop
    scene,               \* the loader's meshes among the children of this.scene
    currentVTKMesh,      \* this.currentVTKMesh (0: null)
    wireframeMesh,       \* this.wireframeMesh (0: null)
    lightingInitialized, \* this.lightingInitialized
    copperScene,         \* this.copperScene is set
    performanceMode,     \* this.performanceMode
    lodLevels,           \* this.lodLevels
    maxSegmentsPerBatch, \* this.maxSegmentsPerBatch
    performanceMonitor,  \* this.performanceMonitor
    frameCounter,        \* this.frameCounter
    load,                \* the call of loadVTKFile in progress, or the last one
    expected,            \* the meshes of the last successful load (none after dispose)
    call,                \* a call of pressureToColor or createSegmentBatches, with
                         \* its arguments and, once made, its result
    tasks                \* the overlapping tube-mode calls of loadVTKFile, each
                         \* with its position in createOptimizedTubeMesh

parserVars == << file, tube, lineNo, ps >>
sceneVars == << scene, currentVTKMesh, wireframeMesh, lightingInitialized >>
perfVars ==
    << performanceMode, lodLevels, maxSegmentsPerBatch, performanceMonitor, frameCounter >>
vars == << impl, parserVars, sceneVars, copperScene, perfVars, load, expected, call, tasks >>

\* the options of a call that the model varies; a callback returns or throws
Options ==
    [ enableTubeMesh  : BOOLEAN,
      enableWireframe : BOOLEAN,
      onProgress      : {"returns", "throws"},
      onComplete      : {"returns", "throws"} ]

NoOptions ==
    [ enableTubeMesh |-> FALSE, enableWireframe |-> TRUE,
      onProgress |-> "returns", onComplete |-> "returns" ]

NoMesh == [ kind |-> "none" ]

\* pc: "idle", "fetch" (awaiting fetch), "text" (awaiting response.text()),
\* "resolved" or "rejected" (the promise of loadVTKFile is settled)
NoLoad ==
    [ pc |-> "idle", id |-> 0, config |-> NoOptions, status |-> 0,
      success |-> FALSE, isPointCloud |-> FALSE, error |-> "", built |-> NoMesh ]

\* no call of a helper method is followed
NoCall == [ op |-> "none" ]

\* pc: "idle", "fetch" (awaiting fetchVTKFile), "frame" (awaiting waitFrame
\* in the loop of createOptimizedTubeMesh) or "resolved"; batches: the length
\* of the array createSegmentBatches returned; built: the LOD groups added to
\* mainGroup so far, each with the index of its batch and the LOD levels
\* createLODGroup read; disposedInFlight: dispose() was called after the
\* call was made and before it was resolved
NoTask ==
    [ pc |-> "idle", count |-> 0, batches |-> 0, built |-> << >>,
      success |-> FALSE, error |-> "", disposedInFlight |-> FALSE ]

NoTasks == [t \in 1..MaxTasks |-> NoTask]

\* the state after the constructor
InitLoader ==
    /\ scene = {}
    /\ currentVTKMesh = 0
    /\ wireframeMesh = 0
    /\ lightingInitialized = FALSE
    /\ copperScene = FALSE
    /\ performanceMode = "auto"
    /\ lodLevels = InitialLodLevels
    /\ maxSegmentsPerBatch = InitialMaxSegmentsPerBatch
    /\ performanceMonitor = InitialMonitor
    /\ frameCounter = 0
    /\ load = NoLoad
    /\ expected = {}
    /\ tasks = NoTasks

InitParse ==
    /\ impl \in {"lod", "cyl"}
    /\ file \in Files
    /\ tube \in BOOLEAN
    /\ lineNo = 1
    /\ ps = InitParser
    /\ InitLoader
    /\ call = NoCall

\* one turn of the loop over the lines
ParseStep ==
    /\ lineNo <= Len(file)
    /\ ps' = ParseLine(impl, ps, file[lineNo], tube)
    /\ lineNo' = lineNo + 1
    /\ UNCHANGED << impl, call, tasks, file, tube, sceneVars, copperScene, perfVars, load, expected >>

NextParse == ParseStep

SpecParse == InitParse /\ [][NextParse]_vars

---------------------------------------------------------------------------
(* The life of the loader: calls of loadVTKFile one after the other, with *)
(* dispose, setCopperScene and setPerformanceMode between its awaits.     *)

Statuses == {200, 404, 500}

\* every response taken for a success
ResponseOkAlways(status) == TRUE

\* response.ok
ResponseOk(status) == status \in 200..299

\* milliseconds between two readings of updatePerformanceMonitor
DeltaTimes == {0, 100}

Modes == {"high", "medium", "low", "auto"}

\* no call of loadVTKFile is between its start and its return
Idle == load.pc \in {"idle", "resolved", "rejected"}

\* the catch block: { success: false, error }
Failed(l, err) == [ l EXCEPT !.pc = "resolved", !.success = FALSE, !.error = err ]

\* the main mesh and the wireframe overlay created by the n-th call
MeshId(n) == 2 * n - 1
WireId(n) == 2 * n

\* addToScene on the loader's meshes; wf is this.wireframeMesh at the call
AddToScene(sc, current, wf, mesh) ==
    LET cleared  == IF current # 0 THEN sc \ {current} ELSE sc
        cleared2 == IF wf # 0 /\ wf # mesh THEN cleared \ {wf} ELSE cleared
        added    == cleared2 \cup {mesh}
    IN  IF wf # 0 THEN added \cup {wf} ELSE added

\* the mesh class loadVTKFile chooses for a parse result
MeshKind(version, config, ret, s) ==
    CASE version = "lod" /\ config.enableTubeMesh /\ ret.kind = "tube" /\ ret.hasRadii
             -> "Group"
      [] version = "lod" /\ ~(config.enableTubeMesh /\ ret.kind = "tube" /\ ret.hasRadii)
             /\ ret.isPointCloud -> "Points"
      [] version = "cyl" /\ ret.isPointCloud -> "Points"
      [] version = "cyl" /\ ~ret.isPointCloud
             /\ config.enableTubeMesh /\ Len(s.radiusData) > 0 -> "Mesh"
      [] OTHER -> "LineSegments"

\* what parseVTKData leaves and returns once its loop has ended in state s
Parsed(version, tubeMode, s) ==
    [ state |-> s, returned |-> Finish(version, s, tubeMode) ]

\* parseVTKData on a whole file: the final state of its loop and what it returns
Parse(version, tubeMode, body) ==
    Parsed(version, tubeMode, ParseFrom(version, InitParser, body, 1, tubeMode))

\* the loads told apart by version, mode and file: the two versions, each in
\* line mode and in tube mode, on each file
LoadCases == 4 * Len(LoadFiles)
CaseVersion(k) == IF k <= 2 * Len(LoadFiles) THEN "lod" ELSE "cyl"
CaseTubeMode(k) == ((k - 1) \div Len(LoadFiles)) % 2 = 1
CaseFile(k) == LoadFiles[((k - 1) % Len(LoadFiles)) + 1]
CaseOf(version, tubeMode, b) ==
    (IF version = "lod" THEN 0 ELSE 2 * Len(LoadFiles))
        + (IF tubeMode THEN Len(LoadFiles) ELSE 0) + b

\* parseVTKData on the first n cases
RECURSIVE ParseAll(_)
ParseAll(n) ==
    IF n = 0 THEN << >>
    ELSE Append(ParseAll(n - 1), Parse(CaseVersion(n), CaseTubeMode(n), CaseFile(n)))

\* parseVTKData on every file a load can receive, computed once
ParsedLoads == ParseAll(LoadCases)

\* parseVTKData on the b-th file
ParseVTKData(version, tubeMode, b) == ParsedLoads[CaseOf(version, tubeMode, b)]

\* loadVTKFile up to its first await; the progress callback is called
\* before the try block
LoadVTKFile ==
    /\ Idle
    /\ load.id < MaxLoads
    /\ \E opts \in Options :
         load' = [ NoLoad EXCEPT
                     !.id = load.id + 1,
                     !.config = opts,
                     !.pc = IF opts.onProgress = "throws" THEN "rejected" ELSE "fetch",
                     !.error = IF opts.onProgress = "throws" THEN "onProgress" ELSE "" ]
    /\ UNCHANGED << impl, call, tasks, parserVars, sceneVars, copperScene, perfVars, expected >>

\* fetch() rejects
FetchRejects ==
    /\ load.pc = "fetch"
    /\ load' = Failed(load, "fetch")
    /\ UNCHANGED << impl, call, tasks, parserVars, sceneVars, copperScene, perfVars, expected >>

\* fetch() resolves with a response: fetchVTKFile throws unless response.ok
ResponseArrives ==
    /\ load.pc = "fetch"
    /\ \E status \in Statuses :
         load' = IF ResponseOk(status)
                 THEN [ load EXCEPT !.pc = "text", !.status = status ]
                 ELSE [ Failed(load, "HTTP") EXCEPT !.status = status ]
    /\ UNCHANGED << impl, call, tasks, parserVars, sceneVars, copperScene, perfVars, expected >>

\* response.text() resolves with the b-th file: the rest of loadVTKFile (a tube mesh
\* of at most three batches is built without waiting for a frame).
\* checksGeometry: the THREE in use throws on new LineSegments(null, ...)
TextArrives ==
    /\ load.pc = "text"
    /\ \E b \in 1..Len(LoadFiles), deltaTime \in DeltaTimes, checksGeometry \in BOOLEAN :
         LET config == load.config
             s      == ParseVTKData(impl, config.enableTubeMesh, b).state
             ret    == ParseVTKData(impl, config.enableTubeMesh, b).returned
             kind   == MeshKind(impl, config, ret, s)
             mon    == IF kind = "Group"
                       THEN UpdatePerformanceMonitor(performanceMonitor, deltaTime)
                       ELSE performanceMonitor
             adj    == IF kind = "Group"
                       THEN AdjustPerformanceMode(performanceMode, mon, lodLevels,
                                                  maxSegmentsPerBatch)
                       ELSE [ lodLevels |-> lodLevels,
                              maxSegmentsPerBatch |-> maxSegmentsPerBatch ]
             built  == [ kind      |-> kind,
                         geometry  |-> IF ret.kind = "tube" THEN "null" ELSE ret.kind,
                         position  |-> ret.position,
                         box       |-> ret.box,
                         groups    |-> IF kind = "Group"
                                       THEN TubeGroups(ret.segments, ret.box, DefaultModelSize,
                                                       adj.lodLevels, adj.maxSegmentsPerBatch)
                                       ELSE << >>,
                         cylinders |-> ret.cylinders ]
             wf     == IF kind = "LineSegments" /\ config.enableWireframe
                       THEN WireId(load.id) ELSE wireframeMesh
         IN  /\ file' = LoadFiles[b]
             /\ tube' = config.enableTubeMesh
             /\ ps' = s
             /\ lineNo' = Len(LoadFiles[b]) + 1
             /\ IF kind = "LineSegments" /\ ret.kind = "tube" /\ checksGeometry
                THEN /\ load' = Failed(load, "TypeError")
                     /\ UNCHANGED << sceneVars, perfVars, expected >>
                ELSE /\ performanceMonitor' = mon
                     /\ frameCounter' = IF kind = "Group" THEN frameCounter + 1
                                        ELSE frameCounter
                     /\ lodLevels' = adj.lodLevels
                     /\ maxSegmentsPerBatch' = adj.maxSegmentsPerBatch
                     /\ wireframeMesh' = wf
                     /\ scene' = AddToScene(scene, currentVTKMesh, wf, MeshId(load.id))
                     /\ currentVTKMesh' = MeshId(load.id)
                     /\ lightingInitialized' = TRUE
                     /\ IF config.onComplete = "throws"
                        THEN /\ load' = [ Failed(load, "onComplete") EXCEPT !.built = built ]
                             /\ UNCHANGED expected
                        ELSE /\ load' = [ load EXCEPT !.pc = "resolved",
                                                      !.success = TRUE,
                                                      !.isPointCloud = ret.isPointCloud,
                                                      !.built = built ]
                             /\ expected' = IF kind = "LineSegments" /\ config.enableWireframe
                                            THEN {MeshId(load.id), WireId(load.id)}
                                            ELSE {MeshId(load.id)}
    /\ UNCHANGED << impl, call, tasks, copperScene, performanceMode >>

Dispose ==
    /\ scene' = (scene \ {currentVTKMesh}) \ {wireframeMesh}
    /\ currentVTKMesh' = 0
    /\ wireframeMesh' = 0
    /\ copperScene' = FALSE
    /\ expected' = {}
    /\ tasks' = [t \in 1..MaxTasks |->
                   IF tasks[t].pc \in {"fetch", "frame"}
                   THEN [ tasks[t] EXCEPT !.disposedInFlight = TRUE ]
                   ELSE tasks[t]]
    /\ UNCHANGED << impl, call, parserVars, lightingInitialized, perfVars, load >>

SetCopperScene ==
    /\ copperScene' = TRUE
    /\ UNCHANGED << impl, call, tasks, parserVars, sceneVars, perfVars, load, expected >>

SetPerformanceMode ==
    /\ impl = "lod"
    /\ \E mode \in Modes :
         /\ performanceMode' = mode
         /\ IF mode # "auto"
            THEN /\ lodLevels' = Preset(mode).lodLevels
                 /\ maxSegmentsPerBatch' = Preset(mode).maxSegmentsPerBatch
            ELSE UNCHANGED << lodLevels, maxSegmentsPerBatch >>
    /\ UNCHANGED << impl, call, tasks, parserVars, sceneVars, copperScene, performanceMonitor, frameCounter,
                    load, expected >>

\* the loader before its first call; the parser variables hold the last parse
Init ==
    /\ impl \in {"lod", "cyl"}
    /\ file = << >>
    /\ tube = FALSE
    /\ lineNo = 1
    /\ ps = InitParser
    /\ InitLoader
    /\ call = NoCall

Next ==
    \/ LoadVTKFile
    \/ FetchRejects
    \/ ResponseArrives
    \/ TextArrives
    \/ Dispose
    \/ SetCopperScene
    \/ SetPerformanceMode

Spec == Init /\ [][Next]_vars

---------------------------------------------------------------------------
(* Properties of the parser, over SpecParse *)

\* the lines of sec are lines i .. i + Len(sec) - 1 of the file and the loop
\* is past them
HasRead(sec) ==
    \E i \in 1..Len(file) :
        /\ i + Len(sec) - 1 <= Len(file)
        /\ SubSeq(file, i, i + Len(sec) - 1) = sec
        /\ lineNo >= i + Len(sec)

\* the first k of the n generated points, as numbers
FirstTriples(k, n) == [j \in 1..(3 * k) |-> parseFloat(CoordTokens(n)[j])]

\* C6: once a section POINTS k of n >= k well-formed points has been read,
\* on lines of any width, the point array holds exactly the first k triples:
\* whatever follows the k-th point is ignored and the array never holds more
\* than 3k numbers.
C6_ExactlyKTriples ==
    \A k \in 0..MaxPoints, n \in 0..MaxPoints, c \in 1..MaxChunk :
        (n >= k /\ HasRead(PointsSection(k, n, c)))
            => (ps.points = FirstTriples(k, n) /\ Len(ps.points) <= 3 * k)

\* a section POINTS 1 of two points on lines of two values left more than one
\* triple in the array
C6_Overshoot ==
    /\ HasRead(PointsSection(1, 2, 2))
    /\ Len(ps.points) > 3

\* the segments a parser state renders, as pairs of end points: the stored
\* segments of the tube path, the cylinders createCylinderGeometry builds from
\* the stored records, or the vertex pairs of the line buffer
SegmentEnds(version, tubeMode, s) ==
    IF version = "lod" /\ tubeMode
    THEN [k \in 1..Len(s.segments) |-> << s.segments[k].start, s.segments[k].end >>]
    ELSE IF version = "cyl" /\ tubeMode
    THEN [k \in 1..Len(CylindersOf(s)) |-> << CylindersOf(s)[k].p1, CylindersOf(s)[k].p2 >>]
    ELSE [k \in 1..(Len(s.vertices) \div 6) |->
             << SubSeq(s.vertices, 6 * k - 5, 6 * k - 3),
                SubSeq(s.vertices, 6 * k - 2, 6 * k) >>]

\* the line the loop is at is read as a cell record of integer tokens
AtRecord ==
    /\ lineNo <= Len(file)
    /\ ps.isReadingCells
    /\ Len(file[lineNo]) >= 1
    /\ \A t \in 1..Len(file[lineNo]) : parseInt(file[lineNo][t]) # NaN

\* the record at the loop declares n >= 1 indices and exactly n follow, each
\* the index of a parsed point
WellFormedRecord ==
    /\ AtRecord
    /\ parseInt(file[lineNo][1]) >= 1
    /\ Len(file[lineNo]) = parseInt(file[lineNo][1]) + 1
    /\ \A t \in 2..Len(file[lineNo]) :
          /\ parseInt(file[lineNo][t]) >= 0
          /\ 3 * parseInt(file[lineNo][t]) + 2 < Len(ps.points)

\* the record at the loop declares a count other than the number of indices
\* that follow
MismatchedRecord ==
    /\ AtRecord
    /\ Len(file[lineNo]) # parseInt(file[lineNo][1]) + 1

\* the end points of the consecutive index pairs of the record at the loop
ConsecutivePairs ==
    [j \in 1..(Len(file[lineNo]) - 2) |->
        << PointAt(ps.points, parseInt(file[lineNo][j + 1])),
           PointAt(ps.points, parseInt(file[lineNo][j + 2])) >>]

\* C7: reading a record of n indices of parsed points adds exactly the n - 1
\* segments of its consecutive index pairs, in record order; reading a
\* record whose count does not match its indices adds no segment and leaves
\* the parser reading cells.
C7_RecordSegments ==
    [][ /\ WellFormedRecord =>
            SegmentEnds(impl, tube, ps') = SegmentEnds(impl, tube, ps) \o ConsecutivePairs
        /\ MismatchedRecord =>
            /\ SegmentEnds(impl, tube, ps') = SegmentEnds(impl, tube, ps)
            /\ ps'.segments = ps.segments
            /\ ps'.vertices = ps.vertices
            /\ ps'.cellConnections = ps.cellConnections
            /\ ps'.isReadingCells ]_vars

\* the record 3 0 1 0 has been read and has left two segments
C7_TwoSegmentsRead ==
    /\ lineNo > 1
    /\ file[lineNo - 1] = Record(3, << 0, 1, 0 >>)
    /\ Len(SegmentEnds(impl, tube, ps)) = 2
    /\ SegmentEnds(impl, tube, ps)[1] = << FirstTriples(1, 1), SubSeq(FirstTriples(2, 2), 4, 6) >>

\* the tubes of every merged LOD mesh built from the segments read so far,
\* with the LOD levels and the batch size of a new loader
MergedTubes ==
    LET ret    == FinishLod(ps, TRUE)
        groups == TubeGroups(ret.segments, ret.box, DefaultModelSize,
                             InitialLodLevels, InitialMaxSegmentsPerBatch)
    IN  Flatten([b \in 1..Len(groups) |->
            Flatten([k \in 1..Len(groups[b]) |-> groups[b][k].tubes])])

\* no vertex pair of the line buffer is a segment of length 0
C8_LineBuffer ==
    ~tube => \A k \in 1..Len(SegmentEnds(impl, FALSE, ps)) :
                 SegmentEnds(impl, FALSE, ps)[k][1] # SegmentEnds(impl, FALSE, ps)[k][2]

\* no tube of a merged LOD mesh is built on a segment of length 0
C8_MergedTubes ==
    (impl = "lod" /\ tube) =>
        \A k \in 1..Len(MergedTubes) : MergedTubes[k].start # MergedTubes[k].end

\* no cylinder of the combined cylinder mesh is built on a segment of length 0
C8_Cylinders ==
    (impl = "cyl" /\ tube) =>
        \A k \in 1..Len(CylindersOf(ps)) : CylindersOf(ps)[k].p1 # CylindersOf(ps)[k].p2

\* C8: a segment whose start and end coordinates are identical contributes
\* nothing to the output geometry in any render path: the line buffer, the
\* merged LOD tube meshes, the combined cylinder mesh.
C8_NoZeroLengthSegment == C8_LineBuffer /\ C8_MergedTubes /\ C8_Cylinders

\* the file is FullPoints, a connectivity section and FullRadius, in the
\* specified order, and has been read to its end
StandardOrderRead ==
    /\ lineNo > Len(file)
    /\ \E cs \in CellsSections : file = InOrder(<< FullPoints, cs, FullRadius >>, "PCD")

\* the radius FullRadius gives point idx, the fallback where it gives none
RadiusOfPoint(idx) ==
    IF idx \in 0..(MaxPoints - 1)
    THEN parseFloat(ScalarTokens(MaxPoints)[idx + 1])
    ELSE DefaultRadius

\* C10: after a file in the specified order whose radius field covers every
\* point, each tube segment carries the radius values of its start and end
\* point index (before the uniform scale); the fallback is used only for an
\* index without a radius entry.
C10_RadiusOfPointIndex ==
    (StandardOrderRead /\ tube) =>
        /\ impl = "lod" =>
              \A k \in 1..Len(ps.segments) :
                  /\ ps.segments[k].startRadius = RadiusOfPoint(ps.segments[k].idx1)
                  /\ ps.segments[k].endRadius = RadiusOfPoint(ps.segments[k].idx2)
        /\ impl = "cyl" =>
              \A k \in 1..Len(CylindersOf(ps)) :
                  /\ CylindersOf(ps)[k].radius1 = RadiusOfPoint(CylindersOf(ps)[k].idx1)
                  /\ CylindersOf(ps)[k].radius2 = RadiusOfPoint(CylindersOf(ps)[k].idx2)

---------------------------------------------------------------------------
(* Properties of the loader, over Spec *)

\* the last call of loadVTKFile got a response with a body, ran to its end
\* and its callbacks returned: file is the body it parsed
Completed ==
    /\ load.pc = "resolved"
    /\ load.status \in 200..299
    /\ load.error \notin {"fetch", "HTTP"}
    /\ load.config.onComplete = "returns"

\* C1: a call whose fetch is answered with a non-success status resolves to
\* { success: false, error } with the status in the error; it is never
\* rejected and never goes on to read the body.
C1_HttpErrorIsFailureResult ==
    (load.status # 0 /\ load.status \notin 200..299) =>
        /\ load.pc = "resolved"
        /\ ~load.success
        /\ load.error = "HTTP"

\* a call answered with 404 has resolved
C1_NotFoundResolved ==
    /\ load.status = 404
    /\ load.pc = "resolved"
    /\ ~load.success

\* C2: when the last call of a sequence of calls made one after the other
\* has succeeded, the loader's meshes in the scene are exactly those of that
\* call: its main mesh, and its wireframe overlay if it was built in line
\* mode with enableWireframe.
C2_SceneIsLastSuccessfulLoad ==
    (load.pc = "resolved" /\ load.success) => scene = expected

\* C3: dispose with no load in flight leaves no mesh of the loader in the
\* scene and no reference to a current mesh or a wireframe overlay; dispose
\* on a disposed loader changes nothing.
C3_DisposeReleasesEverything ==
    [][ (Idle /\ Dispose) =>
            /\ scene' = {}
            /\ currentVTKMesh' = 0
            /\ wireframeMesh' = 0
            /\ (currentVTKMesh = 0 /\ wireframeMesh = 0 /\ ~copperScene)
                   => UNCHANGED << sceneVars, copperScene >> ]_vars

\* C4: a completed call on a file with parsed points and no usable segment
\* (no connectivity section, a mismatched record, a record naming no parsed
\* point) returns success with isPointCloud true and a Points mesh whose
\* position buffer is the parsed points, in line mode and in tube mode.
C4_PointCloudFallback ==
    (Completed /\ file \in {PointsOnlyFile, MismatchedFile, OutOfRangeFile}) =>
        /\ load.success
        /\ load.isPointCloud
        /\ load.built.kind = "Points"
        /\ load.built.position = FirstTriples(MaxPoints, MaxPoints)

\* C5: a call whose fetch succeeds and whose file yields no point returns
\* success false; a call returns success false only when its fetch failed or
\* its file yielded no point.
C5_FailureIffNothingToRender ==
    /\ (Completed /\ Len(ps.points) = 0) => ~load.success
    /\ (load.pc = "resolved" /\ ~load.success /\ load.config.onComplete = "returns")
           => (load.error \in {"fetch", "HTTP"} \/ Len(ps.points) = 0)

\* C9: a completed call in tube mode on a file with a polyline and no radius
\* field returns success with isPointCloud false and a mesh of tubes, one
\* per segment, of the default radius.
C9_TubesWithoutRadius ==
    (Completed /\ load.config.enableTubeMesh /\ file = NoRadiusFile) =>
        /\ load.success
        /\ ~load.isPointCloud
        /\ \/ /\ load.built.kind = "Group"
              /\ \A b \in 1..Len(load.built.groups) :
                     \A k \in 1..Len(load.built.groups[b]) :
                         /\ Len(load.built.groups[b][k].tubes) = 1
                         /\ load.built.groups[b][k].tubes[1].startRadius = DefaultRadius
           \/ /\ load.built.kind = "Mesh"
              /\ Len(load.built.cylinders) = 1
              /\ load.built.cylinders[1].radius1 = DefaultRadius

---------------------------------------------------------------------------
(* Properties of the scalar blocks, over SpecParse *)

\* the lines that open or close a section
IsKeywordLine(line) ==
    \/ startsWith(line, "DATASET") \/ startsWith(line, "POINTS")
    \/ IsCellsHeader(line) \/ startsWith(line, "CELL_TYPES")
    \/ startsWith(line, "POINT_DATA") \/ startsWith(line, "SCALARS")
    \/ startsWith(line, "LOOKUP_TABLE")

\* the name of the SCALARS block whose values line the loop is at ("" when
\* the line at the loop is no values line of a block): the nearest keyword
\* line above it is the LOOKUP_TABLE line of a SCALARS line
BlockName ==
    IF lineNo > Len(file) \/ IsKeywordLine(file[lineNo]) THEN ""
    ELSE LET above == { j \in 1..(lineNo - 1) : IsKeywordLine(file[j]) }
         IN  IF above = {} THEN ""
             ELSE IF /\ startsWith(file[SetMax(above)], "LOOKUP_TABLE")
                     /\ SetMax(above) > 1
                     /\ startsWith(file[SetMax(above) - 1], "SCALARS")
                     /\ Len(file[SetMax(above) - 1]) > 1
                  THEN file[SetMax(above) - 1][2]
                  ELSE ""

\* the turn of the loop changes the radius field / the pressure field
RadiusFieldChanges == ps'.radii # ps.radii \/ ps'.radiusData # ps.radiusData
PressureFieldChanges == ps'.pressureData # ps.pressureData

\* C11: a values line of a SCALARS block adds to the radius field only when
\* the block is named radius or diameter (in any case) and to the pressure
\* field only when it is named pressure; a block of another name adds to
\* neither, wherever the block stands.
C11_OnlyNamedBlocksContribute ==
    [][ BlockName # "" =>
          /\ RadiusFieldChanges => toLowerCase(BlockName) \in {"radius", "diameter"}
          /\ PressureFieldChanges => toLowerCase(BlockName) = "pressure" ]_vars

\* the same in the cylinder version alone
C11_CylinderVersion ==
    [][ (impl = "cyl" /\ BlockName # "") =>
          /\ RadiusFieldChanges => toLowerCase(BlockName) \in {"radius", "diameter"}
          /\ PressureFieldChanges => toLowerCase(BlockName) = "pressure" ]_vars

\* v is stored nowhere in the arrays the parser fills from numeric lines
StoredNowhere(v) ==
    /\ \A i \in 1..Len(ps.points) : ps.points[i] # v
    /\ \A i \in 1..Len(ps.radii) : ps.radii[i] # v
    /\ \A i \in 1..Len(ps.radiusData) : ps.radiusData[i] # v
    /\ \A i \in 1..Len(ps.pressureData) : ps.pressureData[i] # v

\* C12: a token that is no number, on a line of the points section or of a
\* scalar block, is dropped: the point array, the radius field and the
\* pressure field never hold NaN.
C12_NoNaNStored == StoredNowhere(NaN)

\* the points section whose second value is a word has been read in full
C12_BadPointsRead ==
    /\ HasRead(BadPointsSection(MaxPoints, MaxPoints, 3))
    /\ Len(ps.points) = 3 * MaxPoints

---------------------------------------------------------------------------
(* The performance controller on its own: the two calls that open every   *)
(* tube-mode load (updatePerformanceMonitor, adjustPerformanceMode),      *)
(* repeated, with setPerformanceMode between them.                        *)

\* the number of ticks one behaviour of the controller makes
MaxTicks == 12

\* milliseconds between two ticks: a fast frame (100 per second) and
\* a slow one (10 per second)
TickTimes == {10, 100}

\* this.updatePerformanceMonitor(); this.adjustPerformanceMode();
PerformanceTick ==
    /\ frameCounter < MaxTicks
    /\ \E deltaTime \in TickTimes :
         LET mon == UpdatePerformanceMonitor(performanceMonitor, deltaTime)
             adj == AdjustPerformanceMode(performanceMode, mon, lodLevels,
                                          maxSegmentsPerBatch)
         IN  /\ performanceMonitor' = mon
             /\ lodLevels' = adj.lodLevels
             /\ maxSegmentsPerBatch' = adj.maxSegmentsPerBatch
             /\ frameCounter' = frameCounter + 1
    /\ UNCHANGED << impl, call, tasks, parserVars, sceneVars, copperScene, performanceMode,
                    load, expected >>

InitPerf == Init /\ impl = "lod"

NextPerf == PerformanceTick \/ SetPerformanceMode

SpecPerf == InitPerf /\ [][NextPerf]_vars

---------------------------------------------------------------------------
(* pressureToColor of part_000.  A colour channel is held in units of     *)
(* 1/1600 (hundredths, times the sixteen steps of the curve value).       *)

\* the largest pressure value of a call
MaxPressure == 3

\* (pressure - minPressure) / maxPressure: the offset divided by the upper
\* end of the range in place of its width
LinearOverMax(pressure, minPressure, maxPressure) ==
    IF maxPressure > minPressure /\ maxPressure # 0
    THEN << pressure - minPressure, maxPressure >>
    ELSE << 1, 2 >>

\* linear: the fraction (pressure - min) / (max - min), 0.5 for an empty range
Linear(pressure, minPressure, maxPressure) ==
    IF maxPressure > minPressure
    THEN << pressure - minPressure, maxPressure - minPressure >>
    ELSE << 1, 2 >>

\* the largest t with (t / 16)^5 <= (n / d)^2, counting up from t
RECURSIVE RootFrom(_, _, _)
RootFrom(n, d, t) ==
    IF (t + 1) * (t + 1) * (t + 1) * (t + 1) * (t + 1) * d * d <= n * n * 1048576
    THEN RootFrom(n, d, t + 1)
    ELSE t

\* Math.pow(linear, 0.4) in sixteenths, rounded down (0 and 1 are exact, and
\* so is the comparison with 0.5); NaN for a negative base
Pow04(linear) ==
    IF (linear[1] < 0) # (linear[2] < 0) /\ linear[1] # 0 THEN NaN
    ELSE RootFrom(linear[1], linear[2], 0)

\* the branch t < 0.5: factor = t * 2
LowHalf(t) == << 368 + 150 * t, 1120 + 46 * t, 432 - 54 * t >>

\* the branch t >= 0.5: factor = (t - 0.5) * 2
HighHalf(t) == << 1568 - 84 * (t - 8), 1488 - 162 * (t - 8), 0 >>

\* pressureToColor; a NaN curve value fails the test t < 0.5 and gives NaN
\* channels
pressureToColor(pressure, minPressure, maxPressure) ==
    LET t == Pow04(Linear(pressure, minPressure, maxPressure))
    IN  IF t = NaN THEN << NaN, NaN, 0 >>
        ELSE IF t < 8 THEN LowHalf(t)
        ELSE HighHalf(t)

---------------------------------------------------------------------------
(* The merged mesh of a batch: createMergedTubeGeometry, mergeGeometries   *)
(* and manualMergeGeometries.  A geometry is the object identity id, the   *)
(* number count of its vertices and its index array.                       *)

\* the width of the index buffer of manualMergeGeometries (Uint16Array)
IndexBits == 16
IndexModulus == 2 ^ IndexBits

\* the indices THREE.CylinderGeometry gives the side of a tube of r radial
\* segments and one height segment: two rows of r + 1 vertices, the
\* triangles (a, b, d) and (b, c, d) of every quad
TorsoIndex(r) ==
    Flatten([x \in 1..r |->
        << x - 1, r + x, x, r + x, r + x + 1, x >>])

\* the indices of one cap whose vertices start at first: r centre vertices,
\* then a ring of r + 1 vertices
CapIndex(r, first, top) ==
    Flatten([x \in 1..r |->
        IF top THEN << first + r + x - 1, first + r + x, first + x - 1 >>
               ELSE << first + r + x, first + r + x - 1, first + x - 1 >>])

\* new THREE.CylinderGeometry(endRadius, startRadius, length, r, 1, false):
\* a cap is made at an end only when the radius at that end is above 0
CylinderGeometry(id, r, capTop, capBottom) ==
    LET torso == 2 * (r + 1)
        cap   == 2 * r + 1
    IN  [ id    |-> id,
          count |-> torso + (IF capTop THEN cap ELSE 0) + (IF capBottom THEN cap ELSE 0),
          index |-> TorsoIndex(r)
                      \o (IF capTop THEN CapIndex(r, torso, TRUE) ELSE << >>)
                      \o (IF capBottom
                          THEN CapIndex(r, torso + (IF capTop THEN cap ELSE 0), FALSE)
                          ELSE << >>) ]

\* the running vertex counts of geometries[lo..hi]: element j is the number
\* of vertices of geometries[lo..lo + j - 1]
RECURSIVE VertexCounts(_, _, _)
VertexCounts(geometries, lo, hi) ==
    IF lo > hi THEN << >>
    ELSE IF lo = hi THEN << geometries[lo].count >>
    ELSE LET mid   == (lo + hi) \div 2
             left  == VertexCounts(geometries, lo, mid)
             right == VertexCounts(geometries, mid + 1, hi)
         IN  left \o [j \in 1..Len(right) |-> right[j] + left[Len(left)]]

\* vertexOffset when the k-th geometry is merged
VertexOffset(counts, k) == IF k = 1 THEN 0 ELSE counts[k - 1]

\* manualMergeGeometries: the index array is given by chunks, one for each
\* geometry in the order they are written; an element written to the
\* Uint16Array keeps its low 16 bits
ManualMergeGeometries(geometries, id) ==
    LET counts == VertexCounts(geometries, 1, Len(geometries))
    IN  [ id    |-> id,
          count |-> counts[Len(counts)],
          index |-> [k \in 1..Len(geometries) |->
                       [i \in 1..Len(geometries[k].index) |->
                           (geometries[k].index[i] + VertexOffset(counts, k))
                               % IndexModulus]] ]

\* mergeGeometries where THREE has no BufferGeometryUtils (the three module
\* has none): a list of one geometry is returned as it is
MergeGeometries(geometries, id) ==
    IF Len(geometries) = 1
    THEN [ id |-> geometries[1].id, count |-> geometries[1].count,
           index |-> << geometries[1].index >> ]
    ELSE ManualMergeGeometries(geometries, id)

\* the geometries createMergedTubeGeometry makes for a batch of n segments
\* that are neither short nor thin, at r radial segments; pointed: the first
\* segment has radius 0 at its start
TubeGeometries(n, r, pointed) ==
    [k \in 1..n |-> CylinderGeometry(k, Max(3, r), TRUE, ~(pointed /\ k = 1))]

\* createMergedTubeGeometry: the geometry returned (a new empty one when no
\* segment gave a geometry) and the geometries disposed of after the merge
CreateMergedTubeGeometry(n, r, pointed) ==
    LET geometries == TubeGeometries(n, r, pointed)
        merged     == IF n = 0 THEN [ id |-> 1, count |-> 0, index |-> << >> ]
                      ELSE MergeGeometries(geometries, n + 1)
    IN  [ merged   |-> merged,
          disposed |-> {geometries[k].id : k \in 1..n} ]

---------------------------------------------------------------------------
(* The pressure range of createCylinderGeometry and the value it has       *)
(* pressureToColor normalise for each end of a cylinder.                   *)

\* Math.min(...pressureData) and Math.max(...pressureData), NaN as soon as
\* one entry is NaN; Infinity and -Infinity when the field is empty
MinPressureOf(s) ==
    IF Len(s.pressureData) = 0 THEN Infinity
    ELSE IF \E i \in 1..Len(s.pressureData) : ~IsNumber(s.pressureData[i]) THEN NaN
    ELSE SetMin({s.pressureData[i] : i \in 1..Len(s.pressureData)})

MaxPressureOf(s) ==
    IF Len(s.pressureData) = 0 THEN -Infinity
    ELSE IF \E i \in 1..Len(s.pressureData) : ~IsNumber(s.pressureData[i]) THEN NaN
    ELSE SetMax({s.pressureData[i] : i \in 1..Len(s.pressureData)})

\* the value linear of pressureToColor(pressure, minPressure, maxPressure) as
\* createCylinderGeometry calls it; maxPressure > minPressure is false when
\* one of them is NaN
NormalizedPressure(s, pressure) ==
    IF IsNumber(MinPressureOf(s)) /\ IsNumber(MaxPressureOf(s))
    THEN Linear(pressure, MinPressureOf(s), MaxPressureOf(s))
    ELSE << 1, 2 >>

\* for every cylinder, the normalised pressures of its two ends
NormalizedPressures(s) ==
    [k \in 1..Len(CylindersOf(s)) |->
        << NormalizedPressure(s, CylindersOf(s)[k].pressure1),
           NormalizedPressure(s, CylindersOf(s)[k].pressure2) >>]

\* three points in a polyline with a radius each, and the pressure field of
\* the call
PolylineWith(pressures) ==
    [ InitParser EXCEPT !.pointCount = 3,
                        !.points = << 0, 0, 0, 30, 0, 0, 30, 20, 0 >>,
                        !.cellConnections = << << 3, 0, 1, 2 >> >>,
                        !.radiusData = << 20, 5, 30 >>,
                        !.pressureData = pressures ]

\* the pressure fields of the calls: at most three entries
PressureFields == UNION { [1..n -> {0, 10, 30, NaN}] : n \in 0..3 }

---------------------------------------------------------------------------
(* Calls of the two helper methods on their own: pressureToColor on a     *)
(* pressure and a range, createSegmentBatches on a list of segments.      *)

Pressures == -1..MaxPressure

\* the lengths of the segment lists: around one, two and three batches
SegmentCounts == {0, 1, 499, 500, 501, 999, 1000, 1001, 1500, 1501, 2000, 3001}

\* the numbers of segments of a batch that get a tube
BatchSizes == {0, 1, 2, 1260, 1261, 1500}

Calls ==
    [ op : {"pressureToColor"}, done : {FALSE},
      pressure : Pressures, minPressure : Pressures, maxPressure : Pressures ]
    \cup [ op : {"createSegmentBatches"}, done : {FALSE}, count : SegmentCounts ]
    \cup [ op : {"createCylinderGeometry"}, done : {FALSE}, pressureData : PressureFields ]
    \cup [ op : {"createMergedTubeGeometry"}, done : {FALSE},
           segments : BatchSizes, tubeSegments : {3, 8}, pointed : BOOLEAN ]

\* the segments of a call, named by their place in the list
SegmentsOf(count) == [i \in 1..count |-> i]

\* the loader as constructed or after setPerformanceMode, about to make a call
InitCalls ==
    /\ file = << >>
    /\ tube = FALSE
    /\ lineNo = 1
    /\ ps = InitParser
    /\ InitLoader
    /\ call \in Calls
    /\ impl = IF call.op \in {"pressureToColor", "createCylinderGeometry"}
              THEN "cyl" ELSE "lod"

PressureToColorCall ==
    /\ call.op = "pressureToColor"
    /\ ~call.done
    /\ call' = [ op |-> call.op, done |-> TRUE, pressure |-> call.pressure,
                 minPressure |-> call.minPressure, maxPressure |-> call.maxPressure,
                 color |-> pressureToColor(call.pressure, call.minPressure,
                                           call.maxPressure) ]
    /\ UNCHANGED << impl, tasks, parserVars, sceneVars, copperScene, perfVars, load, expected >>

CreateSegmentBatchesCall ==
    /\ call.op = "createSegmentBatches"
    /\ ~call.done
    /\ call' = [ op |-> call.op, done |-> TRUE, count |-> call.count,
                 maxSegmentsPerBatch |-> maxSegmentsPerBatch,
                 batches |-> CreateSegmentBatches(SegmentsOf(call.count),
                                                  maxSegmentsPerBatch) ]
    /\ UNCHANGED << impl, tasks, parserVars, sceneVars, copperScene, perfVars, load, expected >>

\* createMergedTubeGeometry on a batch: the call keeps the identity and the
\* sizes of the geometry returned and the geometries disposed of
CreateMergedTubeGeometryCall ==
    /\ call.op = "createMergedTubeGeometry"
    /\ ~call.done
    /\ LET ret == CreateMergedTubeGeometry(call.segments, call.tubeSegments, call.pointed)
       IN  call' = [ op |-> call.op, done |-> TRUE, segments |-> call.segments,
                     tubeSegments |-> call.tubeSegments, pointed |-> call.pointed,
                     geometry |-> ret.merged.id,
                     vertices |-> ret.merged.count,
                     disposed |-> ret.disposed ]
    /\ UNCHANGED << impl, tasks, parserVars, sceneVars, copperScene, perfVars, load, expected >>

\* createCylinderGeometry on a polyline of three points: the call keeps the
\* pressure range and the normalised pressure of every cylinder end
CreateCylinderGeometryCall ==
    /\ call.op = "createCylinderGeometry"
    /\ ~call.done
    /\ LET s == PolylineWith(call.pressureData)
       IN  call' = [ op |-> call.op, done |-> TRUE, pressureData |-> call.pressureData,
                     minPressure |-> MinPressureOf(s),
                     maxPressure |-> MaxPressureOf(s),
                     normalized |-> NormalizedPressures(s) ]
    /\ UNCHANGED << impl, tasks, parserVars, sceneVars, copperScene, perfVars, load, expected >>

NextCalls ==
    \/ PressureToColorCall
    \/ CreateCylinderGeometryCall
    \/ CreateSegmentBatchesCall
    \/ CreateMergedTubeGeometryCall
    \/ SetPerformanceMode

SpecCalls == InitCalls /\ [][NextCalls]_vars

---------------------------------------------------------------------------
(* Properties of pressureToColor, over SpecCalls *)

LowAnchor == << 368, 1120, 432 >>
MediumAnchor == << 1568, 1488, 0 >>
HighAnchor == << 896, 192, 0 >>

---------------------------------------------------------------------------
(* Properties of the returned geometry, over SpecParse *)

\* the loop over the lines has ended
ParseEnded == lineNo = Len(file) + 1

\* geometry.translate(-center) and geometry.scale(scale) with scale =
\* modelSize / maxDim, applied to the position array of a returned geometry.
\* The coordinates are given as whole numbers of 1 / unit: a geometry left as
\* parsed stays in tenths, a transformed coordinate (p - c) * modelSize / maxDim
\* is (2p - 2c) * modelSize in units of 1 / (2 * maxDim)
Transformed(ret, modelSize) ==
    IF ret.box.maxDim > 0
    THEN [ position |-> [i \in 1..Len(ret.position) |->
                            IF IsNumber(ret.position[i])
                            THEN (2 * ret.position[i] - ret.box.c2[((i - 1) % 3) + 1]) * modelSize
                            ELSE NaN],
           unit     |-> 2 * ret.box.maxDim ]
    ELSE [ position |-> ret.position, unit |-> 10 ]

\* the geometry is centred on the origin and its largest dimension is modelSize
CentredAndSized(ret, modelSize) ==
    LET g == Transformed(ret, modelSize)
    IN  /\ BoundingBox(g.position).c2 = << 0, 0, 0 >>
        /\ BoundingBox(g.position).maxDim = modelSize * g.unit

\* C14: every geometry parseVTKData returns in line mode or as the
\* point-cloud fallback, whose points are not all the same point, has its
\* bounding box centred on the origin with largest dimension modelSize.
C14_CentredAndScaled ==
    (/\ ParseEnded
     /\ Finish(impl, ps, tube).kind \in {"lines", "points"}
     /\ BoundingBox(Finish(impl, ps, tube).position).maxDim > 0)
        => CentredAndSized(Finish(impl, ps, tube), DefaultModelSize)

\* the same for the line geometry alone
C14_LineGeometry ==
    (/\ ParseEnded
     /\ Finish(impl, ps, tube).kind = "lines"
     /\ BoundingBox(Finish(impl, ps, tube).position).maxDim > 0)
        => CentredAndSized(Finish(impl, ps, tube), DefaultModelSize)

\* a line geometry of two distinct points has been returned
C14_LineReturned ==
    /\ ParseEnded
    /\ Finish(impl, ps, tube).kind = "lines"
    /\ BoundingBox(Finish(impl, ps, tube).position).maxDim > 0

---------------------------------------------------------------------------
(* Properties of the performance controller, over SpecPerf *)

\* C15: in every state of the loader, the LOD levels in order of increasing
\* distance have non-increasing segment counts and non-increasing radius
\* scales.
C15_LevelsOrdered ==
    \A k \in 1..(Len(lodLevels) - 1) :
        /\ lodLevels[k].distance < lodLevels[k + 1].distance
        /\ lodLevels[k].segments >= lodLevels[k + 1].segments
        /\ Micro(lodLevels[k].radiusScale) >= Micro(lodLevels[k + 1].radiusScale)

\* the levels of the constructor after two degrade ticks
C15_DegradedTwice ==
    /\ performanceMode = "auto"
    /\ lodLevels[1].segments = 3
    /\ lodLevels[1].radiusScale = Rat(64, 100)
    /\ maxSegmentsPerBatch = 640

\* the smallest radius scale the loader configures anywhere: the last level
\* of the low preset
MinRadiusScale == Rat(2, 10)

\* C16: whatever degrade ticks have run, every level keeps a segment count of
\* at least 3 and a radius scale of at least the configured minimum, and the
\* batch size stays at least 500.
C16_DegradeMinimums ==
    /\ maxSegmentsPerBatch >= 500
    /\ \A k \in 1..Len(lodLevels) :
          /\ lodLevels[k].segments >= 3
          /\ Micro(lodLevels[k].radiusScale) >= Micro(MinRadiusScale)

\* the two minimums the code does enforce
C16_SegmentsAndBatchSize ==
    /\ maxSegmentsPerBatch >= 500
    /\ \A k \in 1..Len(lodLevels) : lodLevels[k].segments >= 3

\* a degrade tick has run on the levels of the low preset
C16_LowPresetDegraded ==
    /\ performanceMode = "auto"
    /\ lodLevels[1].segments = 3
    /\ lodLevels[1].radiusScale = Rat(56, 100)
    /\ maxSegmentsPerBatch = 500

\* the step is a tick of the controller
IsTick == frameCounter' = frameCounter + 1

\* the step is a tick in auto mode whose updated readings meet the improve
\* condition (and not the degrade condition, which is tested first)
IsImproveTick ==
    /\ IsTick
    /\ performanceMode = "auto"
    /\ ~ShouldDegrade(performanceMonitor')
    /\ ShouldImprove(performanceMonitor')

\* the step is a tick in auto mode whose updated readings meet the degrade
\* condition
IsDegradeTick ==
    /\ IsTick
    /\ performanceMode = "auto"
    /\ ShouldDegrade(performanceMonitor')

\* C17: an improve tick raises the segment count of every level below 8, the
\* radius scale of every level below 1.0 and the batch size when it is below
\* 2000.
C17_ImproveGrows ==
    [][ IsImproveTick =>
          /\ \A k \in 1..Len(lodLevels) :
                /\ lodLevels[k].segments < 8
                      => lodLevels'[k].segments > lodLevels[k].segments
                /\ Micro(lodLevels[k].radiusScale) < Million
                      => Micro(lodLevels'[k].radiusScale) > Micro(lodLevels[k].radiusScale)
          /\ maxSegmentsPerBatch < 2000 => maxSegmentsPerBatch' > maxSegmentsPerBatch ]_vars

\* the radius scales and the batch size alone
C17_ScaleAndBatchSizeGrow ==
    [][ IsImproveTick =>
          /\ \A k \in 1..Len(lodLevels) :
                Micro(lodLevels[k].radiusScale) < Million
                    => Micro(lodLevels'[k].radiusScale) > Micro(lodLevels[k].radiusScale)
          /\ maxSegmentsPerBatch < 2000 => maxSegmentsPerBatch' > maxSegmentsPerBatch ]_vars

\* improve ticks have run on the levels of the low preset
C17_LowPresetImproved ==
    /\ performanceMode = "auto"
    /\ lodLevels[1].segments = 4
    /\ lodLevels[1].radiusScale = Rat(735, 1000)
    /\ maxSegmentsPerBatch = 550

\* C18: a tick changes the LOD levels or the batch size only in auto mode
\* and only when the degrade or the improve condition holds; in mode high,
\* medium or low, and in auto mode when neither holds, it leaves both as
\* they are.
C18_TickAdjustsOnlyInAuto ==
    [][ (IsTick /\ ~IsDegradeTick /\ ~IsImproveTick)
            => UNCHANGED << lodLevels, maxSegmentsPerBatch >> ]_vars

\* a tick has run in mode low with readings that meet the degrade condition
C18_SlowInLowMode ==
    /\ performanceMode = "low"
    /\ performanceMonitor.lowFrameCount > 10
    /\ frameCounter = MaxTicks
    /\ lodLevels = Preset("low").lodLevels

\* a tick has run in auto mode with readings that meet neither condition
C18_NeitherInAutoMode ==
    /\ performanceMode = "auto"
    /\ frameCounter = 1
    /\ performanceMonitor.lowFrameCount = 1
    /\ lodLevels = InitialLodLevels


\* the step is the arrival of the text of a load that builds the tube group
IsTubeLoad == load.pc = "text" /\ load'.built.kind = "Group"

\* the merged meshes of the group have the radial segments and the radius
\* scale of the given LOD levels
BuiltWith(groups, levels) ==
    \A b \in 1..Len(groups) :
        /\ Len(groups[b]) = Len(levels)
        /\ \A k \in 1..Len(levels) :
              /\ groups[b][k].radialSegments = Max(3, levels[k].segments)
              /\ groups[b][k].tubeRadiusScale = levels[k].radiusScale

\* C19: an adjustment takes effect on the next load: the batches of a load
\* are built with the LOD configuration that was in effect before the tick of
\* that load.
C19_BuiltWithPreviousConfiguration ==
    [][ IsTubeLoad => BuiltWith(load'.built.groups, lodLevels) ]_vars

\* what the code does: the tick of a load runs before its batches are made,
\* and the batches are built with the configuration the tick has left
C19_BuiltWithAdjustedConfiguration ==
    [][ IsTubeLoad => BuiltWith(load'.built.groups, lodLevels') ]_vars

\* a tube group of at least one batch was built in auto mode by a load whose
\* tick has raised the radius scales
C19_BuiltAfterImproveTick ==
    /\ load.pc = "resolved"
    /\ load.built.kind = "Group"
    /\ Len(load.built.groups) > 0
    /\ performanceMode = "auto"
    /\ Micro(lodLevels[2].radiusScale) > Micro(InitialLodLevels[2].radiusScale)
    /\ BuiltWith(load.built.groups, lodLevels)


\* C20: createSegmentBatches cuts the segment sequence into contiguous
\* batches whose concatenation in order is the input: every batch but the
\* last holds exactly maxSegmentsPerBatch segments, the last holds between 1
\* and maxSegmentsPerBatch, and an empty input gives no batch.
C20_BatchesPartitionSegments ==
    (call.op = "createSegmentBatches" /\ call.done) =>
        LET batches == call.batches
            n       == Len(batches)
        IN  /\ Flatten(batches) = SegmentsOf(call.count)
            /\ \A b \in 1..(n - 1) : Len(batches[b]) = call.maxSegmentsPerBatch
            /\ n > 0 => Len(batches[n]) \in 1..call.maxSegmentsPerBatch
            /\ call.count = 0 => batches = << >>

\* 1001 segments were cut with batch size 500 into two full batches and a
\* last batch of one segment
C20_ShortLastBatch ==
    /\ call.op = "createSegmentBatches"
    /\ call.done
    /\ call.count = 1001
    /\ call.maxSegmentsPerBatch = 500
    /\ Len(call.batches) = 3
    /\ Len(call.batches[3]) = 1

---------------------------------------------------------------------------
(* Overlapping tube-mode loads: the loop of createOptimizedTubeMesh, which *)
(* gives up the thread in waitFrame, and what runs in between.  A step is  *)
(* what JavaScript runs without interruption: from the call, or from the   *)
(* resumption after an await, to the next await or the return.             *)

\* the segment counts of the files the overlapping loads read
LoadSegmentCounts == {0, 4401}

\* the milliseconds between the ticks of the overlapping loads
LoadTickTimes == {10}

\* the length of the array createSegmentBatches returns for count segments:
\* the number of turns of its loop, which is Len(CreateSegmentBatches(s, b))
\* for every s of that length
BatchCount(count, batchSize) == (count + batchSize - 1) \div batchSize

\* the loop without its waitFrame: every batch left is built at once
BuildAllBatches(built, batches, levels) ==
    built \o [j \in 1..(batches - Len(built)) |->
                 [ index |-> Len(built) + j - 1, levels |-> levels ]]

\* the loop of createOptimizedTubeMesh from i = Len(built) to its next
\* waitFrame or its end: a waitFrame follows the batch i > 0 with i % 3 = 0
RECURSIVE BuildBatches(_, _, _)
BuildBatches(built, batches, levels) ==
    LET i == Len(built)
    IN  IF i >= batches THEN built
        ELSE IF i > 0 /\ i % 3 = 0
        THEN Append(built, [ index |-> i, levels |-> levels ])
        ELSE BuildBatches(Append(built, [ index |-> i, levels |-> levels ]),
                          batches, levels)

\* the loop stopped at a waitFrame: it has built a batch and that batch is
\* one after which the loop waits
WaitsForFrame(before, after) ==
    /\ Len(after) > Len(before)
    /\ Len(after) - 1 > 0
    /\ (Len(after) - 1) % 3 = 0

\* createOptimizedTubeMesh from the loop on and, when the loop ends, the rest
\* of loadVTKFile: addToScene and the success result
RunLoop(t, started, levels) ==
    LET built == BuildBatches(started.built, started.batches, levels)
    IN  IF WaitsForFrame(started.built, built)
        THEN /\ tasks' = [tasks EXCEPT ![t] = [ started EXCEPT !.pc = "frame",
                                                               !.built = built ]]
             /\ UNCHANGED << sceneVars, expected >>
        ELSE /\ tasks' = [tasks EXCEPT ![t] = [ started EXCEPT !.pc = "resolved",
                                                               !.built = built,
                                                               !.success = TRUE ]]
             /\ scene' = AddToScene(scene, currentVTKMesh, wireframeMesh, MeshId(t))
             /\ currentVTKMesh' = MeshId(t)
             /\ lightingInitialized' = TRUE
             /\ expected' = {MeshId(t)}
             /\ UNCHANGED wireframeMesh

\* a call that cancels the calls in flight: they never settle
StartTaskCancelling(t) ==
    /\ tasks[t].pc = "idle"
    /\ t > 1 => tasks[t - 1].pc # "idle"
    /\ \E count \in LoadSegmentCounts :
         tasks' = [u \in 1..MaxTasks |->
                     IF u = t THEN [ NoTask EXCEPT !.pc = "fetch", !.count = count ]
                     ELSE IF tasks[u].pc \in {"fetch", "frame"}
                     THEN [ tasks[u] EXCEPT !.pc = "cancelled" ]
                     ELSE tasks[u]]
    /\ UNCHANGED << impl, call, parserVars, sceneVars, copperScene, perfVars, load, expected >>

\* loadVTKFile is called with enableTubeMesh, up to the await of fetchVTKFile
StartTask(t) ==
    /\ tasks[t].pc = "idle"
    /\ t > 1 => tasks[t - 1].pc # "idle"
    /\ \E count \in LoadSegmentCounts :
         tasks' = [tasks EXCEPT ![t] = [ NoTask EXCEPT !.pc = "fetch", !.count = count ]]
    /\ UNCHANGED << impl, call, parserVars, sceneVars, copperScene, perfVars, load, expected >>

\* fetchVTKFile throws: the catch of loadVTKFile returns the failure result
TaskFetchFails(t) ==
    /\ tasks[t].pc = "fetch"
    /\ tasks' = [tasks EXCEPT ![t] = [ @ EXCEPT !.pc = "resolved", !.error = "fetch" ]]
    /\ UNCHANGED << impl, call, parserVars, sceneVars, copperScene, perfVars, load, expected >>

\* fetchVTKFile returns a file with segments and radii: the tick, then
\* createSegmentBatches and the loop up to its first waitFrame or its end
TaskTextArrives(t) ==
    /\ tasks[t].pc = "fetch"
    /\ \E deltaTime \in LoadTickTimes :
         LET mon == UpdatePerformanceMonitor(performanceMonitor, deltaTime)
             adj == AdjustPerformanceMode(performanceMode, mon, lodLevels,
                                          maxSegmentsPerBatch)
             started == [ tasks[t] EXCEPT
                            !.batches = BatchCount(tasks[t].count,
                                                  adj.maxSegmentsPerBatch) ]
         IN  /\ performanceMonitor' = mon
             /\ frameCounter' = frameCounter + 1
             /\ lodLevels' = adj.lodLevels
             /\ maxSegmentsPerBatch' = adj.maxSegmentsPerBatch
             /\ RunLoop(t, started, adj.lodLevels)
    /\ UNCHANGED << impl, call, parserVars, copperScene, performanceMode, load >>

\* the animation frame waitFrame asked for is delivered: the loop goes on
FrameDelivered(t) ==
    /\ tasks[t].pc = "frame"
    /\ RunLoop(t, tasks[t], lodLevels)
    /\ UNCHANGED << impl, call, parserVars, copperScene, perfVars, load >>

InitBuild == Init /\ impl = "lod"

NextBuild ==
    \/ \E t \in 1..MaxTasks : StartTask(t)
    \/ \E t \in 1..MaxTasks : TaskFetchFails(t)
    \/ \E t \in 1..MaxTasks : TaskTextArrives(t)
    \/ \E t \in 1..MaxTasks : FrameDelivered(t)
    \/ SetPerformanceMode
    \/ Dispose

SpecBuild == InitBuild /\ [][NextBuild]_vars

---------------------------------------------------------------------------
(* Properties of the batch loop *)

\* the step adds LOD groups to the mainGroup of task t
BuildsBatches(t) == tasks'[t].built # tasks[t].built

\* C21: within one tube-mode load the batches are built one after another in
\* index order, and the build waits for an animation frame at regular
\* intervals: at most 4 batches are built before the first wait and at most
\* 3 between two later waits; no two loads build in the same stretch.
C21_BatchesInOrderBetweenFrames ==
    [][ \A t \in 1..MaxTasks :
            /\ Len(tasks'[t].built) - Len(tasks[t].built)
                   <= IF tasks[t].pc = "frame" THEN 3 ELSE 4
            /\ Len(tasks'[t].built) <= tasks'[t].batches
            /\ \A j \in 1..Len(tasks'[t].built) : tasks'[t].built[j].index = j - 1
            /\ \A j \in 1..Len(tasks[t].built) : tasks'[t].built[j] = tasks[t].built[j]
            /\ BuildsBatches(t) => \A u \in 1..MaxTasks \ {t} : ~BuildsBatches(u)
      ]_vars

\* a load of nine batches waits for its second frame: batches 0..3 were built
\* before the first wait and 4..6 after it
C21_SecondWait ==
    \E t \in 1..MaxTasks :
        /\ tasks[t].pc = "frame"
        /\ tasks[t].batches = 9
        /\ Len(tasks[t].built) = 7

\* the fetch of every call settles and every animation frame asked for is
\* delivered
FetchSettles(t) == TaskFetchFails(t) \/ TaskTextArrives(t)

SpecBuildFair ==
    /\ SpecBuild
    /\ \A t \in 1..MaxTasks : WF_vars(FetchSettles(t)) /\ WF_vars(FrameDelivered(t))

---------------------------------------------------------------------------
(* Properties of the cell indices *)

\* the coordinates of the segments emitted so far
EmittedCoordinates == Flatten([k \in 1..Len(SegmentEnds(impl, tube, ps)) |->
                          SegmentEnds(impl, tube, ps)[k][1] \o SegmentEnds(impl, tube, ps)[k][2]])

\* C23: every segment the parser emits has both endpoints read inside the
\* point array: an index that is negative or beyond the points parsed so far
\* gives no segment, and no undefined coordinate enters the geometry.
C23_NoUndefinedCoordinate ==
    \A i \in 1..Len(EmittedCoordinates) : EmittedCoordinates[i] # Undefined

\* what the code does check in vtkLoader.js: the upper bound.  Every tube
\* segment has its indices below the number of whole points parsed so far
C23_UpperBound ==
    (impl = "lod" /\ tube) =>
        \A k \in 1..Len(ps.segments) :
            /\ ps.segments[k].idx1 * 3 + 2 < Len(ps.points)
            /\ ps.segments[k].idx2 * 3 + 2 < Len(ps.points)

\* a record with the index -1 was read after two points and gave a segment
C23_NegativeIndexRead ==
    /\ impl = "lod" /\ tube
    /\ Len(ps.points) = 6
    /\ \E k \in 1..Len(ps.segments) : ps.segments[k].idx1 = -1

---------------------------------------------------------------------------
(* Properties of the reading flags *)

\* the reading states the parser is in: the flags that make the loop body
\* consume a line
ReadingStates(version, s) ==
    IF version = "lod"
    THEN {f \in {"points", "cells", "scalars"} :
            \/ f = "points" /\ s.isReadingPoints
            \/ f = "cells" /\ s.isReadingCells
            \/ f = "scalars" /\ s.isReadingScalars}
    ELSE {f \in {"points", "cells", "radius", "pressure"} :
            \/ f = "points" /\ s.isReadingPoints
            \/ f = "cells" /\ s.isReadingCells
            \/ f = "radius" /\ s.isReadingRadius
            \/ f = "pressure" /\ s.isReadingPressure}

\* C24: at every input line the parser is in at most one reading state
\* (points, cells or scalar values), for any order of the sections: every
\* section header leaves the other reading flags cleared.
C24_OneReadingState == Cardinality(ReadingStates(impl, ps)) <= 1

\* no input line is consumed into two arrays
C24_OneArrayPerLine ==
    [][ Cardinality({a \in {"points", "scalars", "cells"} :
            \/ a = "points" /\ ps'.points # ps.points
            \/ a = "scalars" /\ (RadiusFieldChanges \/ PressureFieldChanges)
            \/ a = "cells" /\ \/ ps'.segments # ps.segments
                              \/ ps'.vertices # ps.vertices
                              \/ ps'.cellConnections # ps.cellConnections}) <= 1 ]_vars

\* the cylinder version clears every other flag at every header
C24_CylinderVersion == impl = "cyl" => C24_OneReadingState

\* the header of a points section that follows a scalar block was read
C24_PointsAfterScalars ==
    /\ impl = "lod"
    /\ ps.isReadingPoints
    /\ ps.scalarName # ""
    /\ lineNo > 1
    /\ startsWith(file[lineNo - 1], "POINTS")

---------------------------------------------------------------------------
(* Properties of the merged mesh *)

\* the merged geometry of the call made
MergedOfCall ==
    CreateMergedTubeGeometry(call.segments, call.tubeSegments, call.pointed).merged

\* every index of the k-th chunk is the index of the k-th geometry plus the
\* number of vertices of the geometries before it, and is a vertex of the
\* merged mesh
IndicesOffset(geometries, merged) ==
    LET counts == VertexCounts(geometries, 1, Len(geometries))
    IN  /\ Len(merged.index) = Len(geometries)
        /\ \A k \in 1..Len(geometries) :
              /\ Len(merged.index[k]) = Len(geometries[k].index)
              /\ \A i \in 1..Len(geometries[k].index) :
                    /\ merged.index[k][i]
                          = geometries[k].index[i] + VertexOffset(counts, k)
                    /\ merged.index[k][i] < merged.count

\* C25: in the merged mesh of a batch every triangle index of the k-th
\* merged segment is its index in the segment's own mesh plus the number of
\* vertices of the segments before it, and is below the number of vertices
\* of the merged mesh, for every batch size the loader reaches (up to 2000,
\* 1500 in the high preset): the 16-bit index buffer does not wrap around.
C25_IndicesOffsetByVertexCount ==
    (call.op = "createMergedTubeGeometry" /\ call.done /\ call.segments > 0) =>
        IndicesOffset(TubeGeometries(call.segments, call.tubeSegments, call.pointed),
                      MergedOfCall)

\* the same for the merged meshes of at most 65536 vertices
C25_SmallMeshes ==
    (/\ call.op = "createMergedTubeGeometry" /\ call.done /\ call.segments > 0
     /\ call.vertices <= IndexModulus) =>
        IndicesOffset(TubeGeometries(call.segments, call.tubeSegments, call.pointed),
                      MergedOfCall)

\* a batch of the high preset was merged: 1500 tubes of 8 radial segments
C25_HighPresetBatch ==
    /\ call.op = "createMergedTubeGeometry"
    /\ call.done
    /\ call.segments = 1500
    /\ call.tubeSegments = 8
    /\ call.vertices = 78000

---------------------------------------------------------------------------
(* Properties of the pressure colours of the cylinder mesh *)

\* the fraction lies in [0, 1]
InUnitInterval(q) == q[2] > 0 /\ 0 <= q[1] /\ q[1] <= q[2]

\* C26: for every vertex colour of the cylinder mesh the normalised pressure
\* given to the colour curve lies in [0, 1], also for points without a
\* pressure entry (pressure 0), for a pressure field shorter than the point
\* set, and without a pressure field (normalised value 0.5).
C26_NormalizedInUnitInterval ==
    (call.op = "createCylinderGeometry" /\ call.done) =>
        \A k \in 1..Len(call.normalized) :
            InUnitInterval(call.normalized[k][1]) /\ InUnitInterval(call.normalized[k][2])

\* the same when the field has an entry for every point or no entry at all
C26_FullOrEmptyField ==
    (call.op = "createCylinderGeometry" /\ call.done /\ Len(call.pressureData) \in {0, 3}) =>
        \A k \in 1..Len(call.normalized) :
            InUnitInterval(call.normalized[k][1]) /\ InUnitInterval(call.normalized[k][2])

\* a mesh of two cylinders was made from a pressure field of two entries for
\* three points
C26_ShortField ==
    /\ call.op = "createCylinderGeometry"
    /\ call.done
    /\ call.pressureData = << 10, 30 >>
    /\ Len(call.normalized) = 2

---------------------------------------------------------------------------
(* Properties of overlapping loads *)

\* C27: when two tube-mode loads overlap on one loader, or setPerformanceMode
\* is called while a load waits between batches, every batch of a load is
\* still built with one and the same list of LOD levels.
C27_OneLevelListPerLoad ==
    \A t \in 1..MaxTasks :
        \A i, j \in 1..Len(tasks[t].built) :
            tasks[t].built[i].levels = tasks[t].built[j].levels

\* the batches built without a wait in between share their list of levels
C27_OneLevelListPerStretch ==
    [][ \A t \in 1..MaxTasks :
            \A i, j \in (Len(tasks[t].built) + 1)..Len(tasks'[t].built) :
                tasks'[t].built[i].levels = tasks'[t].built[j].levels ]_vars

\* a load waits between batches while the other load has made its tick
C27_TickWhileWaiting ==
    /\ tasks[1].pc = "frame"
    /\ tasks[2].pc = "resolved"
    /\ tasks[2].success
    /\ performanceMode = "auto"
    /\ lodLevels # tasks[1].built[1].levels

---------------------------------------------------------------------------
(* Properties of the disposal of geometries *)

\* C28: the geometry createMergedTubeGeometry returns has not been disposed
\* of: it is none of the per-segment geometries the function disposes of
\* after the merge, also for a batch of exactly one segment that gets a tube.
C28_ReturnedGeometryNotDisposed ==
    (call.op = "createMergedTubeGeometry" /\ call.done) =>
        call.geometry \notin call.disposed

\* the same for the batches of no segment or of two and more
C28_MergedOfSeveral ==
    (call.op = "createMergedTubeGeometry" /\ call.done /\ call.segments # 1) =>
        call.geometry \notin call.disposed

\* a batch of exactly one segment was merged
C28_SingleSegmentBatch ==
    /\ call.op = "createMergedTubeGeometry"
    /\ call.done
    /\ call.segments = 1
    /\ call.disposed = {1}


\* the step resolves the call t of loadVTKFile
Resolves(t) == tasks[t].pc # "resolved" /\ tasks'[t].pc = "resolved"

\* C29: when dispose() is called while a load is in flight (awaiting the
\* fetch or waiting between batches), the load adds nothing to the scene and
\* sets no current mesh when it completes: the scene holds no mesh of the
\* loader once the load has finished.
C29_NothingAddedAfterDispose ==
    [][ \A t \in 1..MaxTasks :
            (Resolves(t) /\ tasks[t].disposedInFlight)
                => /\ MeshId(t) \notin scene'
                   /\ currentVTKMesh' = currentVTKMesh ]_vars

\* a load that fails after dispose() leaves the scene as dispose() left it
C29_FailedLoadAddsNothing ==
    [][ \A t \in 1..MaxTasks :
            (Resolves(t) /\ tasks[t].disposedInFlight /\ ~tasks'[t].success)
                => UNCHANGED << scene, currentVTKMesh, wireframeMesh >> ]_vars

\* a load during whose wait between batches dispose() was called has
\* completed, and its mesh is in the scene
C29_CompletedAfterDispose ==
    \E t \in 1..MaxTasks :
        /\ tasks[t].pc = "resolved"
        /\ tasks[t].success
        /\ tasks[t].disposedInFlight
        /\ tasks[t].batches > 4
        /\ MeshId(t) \in scene


---------------------------------------------------------------------------
(* Properties of a failed load, over Spec *)

\* the step in which loadVTKFile returns { success: false, error }
ReturnsFailure ==
    /\ load.pc \in {"fetch", "text"}
    /\ load'.pc = "resolved"
    /\ ~load'.success

\* C30: a step of loadVTKFile that ends in the return of success: false
\* leaves the scene, currentVTKMesh and wireframeMesh as they were, whatever
\* the failure (failed fetch, error while the mesh is built, onComplete
\* throwing)
C30_FailedLoadLeavesScene ==
    [][ ReturnsFailure => UNCHANGED << scene, currentVTKMesh, wireframeMesh >> ]_vars

\* the part of C30 that holds: the steps of a load before its last leave
\* the three alone, and so does a failure raised before addToScene
C30_FailureBeforeAddToScene ==
    [][ /\ (load' # load /\ load'.pc \in {"fetch", "text", "rejected"})
            => UNCHANGED << scene, currentVTKMesh, wireframeMesh >>
        /\ (ReturnsFailure /\ load'.error # "onComplete")
            => UNCHANGED << scene, currentVTKMesh, wireframeMesh >> ]_vars

\* a load has returned success: false after onComplete threw, and its mesh
\* is the current mesh, in the scene
C30_FailedWithMeshInScene ==
    /\ load.pc = "resolved"
    /\ ~load.success
    /\ load.error = "onComplete"
    /\ currentVTKMesh = MeshId(load.id)
    /\ MeshId(load.id) \in scene

===========================================================================
